---- MODULE Spec2Model ----
(***************************************************************************)
(* Model of the template-based code generation of ai-lowcode-editor        *)
(* (docs/06-代码生成与预览.md): TemplateEngine, CodeGenerator and           *)
(* CodeGeneratorFactory.                                                   *)
(*                                                                         *)
(* A JavaScript string is a sequence of one-character strings, so that the *)
(* regular expressions of the engine are computed character by character.  *)
(***************************************************************************)
EXTENDS Integers, Sequences, FiniteSets, TLC

\* ------------------------------------------------------------------------
\* Characters and strings
\* ------------------------------------------------------------------------

\* \s of a JavaScript regular expression (the characters the model uses)
IsSpace(c) == c \in {" ", "\n", "\t"}

Digits == <<"0", "1", "2", "3", "4", "5", "6", "7", "8", "9">>

IsDigit(c) == \E d \in 1..10 : Digits[d] = c

DigitVal(c) == (CHOOSE d \in 1..10 : Digits[d] = c) - 1

LowerCase == <<"a", "b", "c", "d", "e", "f", "g", "h", "i", "j", "k", "l", "m",
               "n", "o", "p", "q", "r", "s", "t", "u", "v", "w", "x", "y", "z">>

UpperCase == <<"A", "B", "C", "D", "E", "F", "G", "H", "I", "J", "K", "L", "M",
               "N", "O", "P", "Q", "R", "S", "T", "U", "V", "W", "X", "Y", "Z">>

IsLower(c) == \E k \in 1..26 : LowerCase[k] = c

IsUpper(c) == \E k \in 1..26 : UpperCase[k] = c

\* \w of a JavaScript regular expression
IsWord(c) == IsLower(c) \/ IsUpper(c) \/ IsDigit(c) \/ c = "_"

ToUpperChar(c) == IF IsLower(c) THEN UpperCase[CHOOSE k \in 1..26 : LowerCase[k] = c] ELSE c

ToLowerChar(c) == IF IsUpper(c) THEN LowerCase[CHOOSE k \in 1..26 : UpperCase[k] = c] ELSE c

MinOf(S) == CHOOSE m \in S : \A n \in S : m <= n

MaxOf(S) == CHOOSE m \in S : \A n \in S : m >= n

\* s.startsWith(lit, i - 1), positions counted from 1
StartsWithAt(s, i, lit) ==
    /\ i >= 1
    /\ i + Len(lit) - 1 <= Len(s)
    /\ SubSeq(s, i, i + Len(lit) - 1) = lit

\* position of the first occurrence of lit at or after i, 0 when there is none
FindLit(s, i, lit) ==
    LET J == {j \in i..Len(s) : StartsWithAt(s, j, lit)}
    IN  IF J = {} THEN 0 ELSE MinOf(J)

\* position of the first "}" at or after i, 0 when there is none
FirstCloseBrace(s, i) ==
    LET J == {j \in i..Len(s) : s[j] = "}"}
    IN  IF J = {} THEN 0 ELSE MinOf(J)

AllSpace(s) == \A k \in 1..Len(s) : IsSpace(s[k])

\* String.prototype.trim
Trim(s) ==
    IF AllSpace(s) THEN <<>>
    ELSE LET K == {k \in 1..Len(s) : ~IsSpace(s[k])}
         IN  SubSeq(s, MinOf(K), MaxOf(K))

\* s.includes(lit)
Includes(s, lit) == FindLit(s, 1, lit) # 0

\* s.split(sep) for a non-empty literal separator
RECURSIVE SplitLit(_, _)
SplitLit(s, sep) ==
    LET j == FindLit(s, 1, sep)
    IN  IF j = 0 THEN <<s>>
        ELSE <<SubSeq(s, 1, j - 1)>> \o SplitLit(SubSeq(s, j + Len(sep), Len(s)), sep)

\* s.split(/\s+/): the separators are the maximal runs of white space
RECURSIVE SplitSpaces(_)
SplitSpaces(s) ==
    LET J == {j \in 1..Len(s) : IsSpace(s[j])}
    IN  IF J = {} THEN <<s>>
        ELSE LET j == MinOf(J)
                 N == {k \in j..Len(s) : ~IsSpace(s[k])}
                 e == IF N = {} THEN Len(s) + 1 ELSE MinOf(N)
             IN  <<SubSeq(s, 1, j - 1)>> \o SplitSpaces(SubSeq(s, e, Len(s)))

\* array.join('') of strings
RECURSIVE JoinAll(_)
JoinAll(ss) == IF ss = <<>> THEN <<>> ELSE Head(ss) \o JoinAll(Tail(ss))

\* the literal texts of the engine, as strings of the model
LIT_true == <<"t", "r", "u", "e">>

LIT_false == <<"f", "a", "l", "s", "e">>

LIT_null == <<"n", "u", "l", "l">>

LIT_undefined == <<"u", "n", "d", "e", "f", "i", "n", "e", "d">>

LIT_ifOpen == <<"{", "{", "#", "i", "f">>

LIT_else == <<"{", "{", "#", "e", "l", "s", "e", "}", "}">>

LIT_ifClose == <<"{", "{", "/", "i", "f", "}", "}">>

LIT_eachOpen == <<"{", "{", "#", "e", "a", "c", "h">>

LIT_eachClose == <<"{", "{", "/", "e", "a", "c", "h", "}", "}">>

LIT_item == <<"i", "t", "e", "m">>

LIT_index == <<"i", "n", "d", "e", "x">>

LIT_length == <<"l", "e", "n", "g", "t", "h">>

\* ------------------------------------------------------------------------
\* JavaScript values
\* ------------------------------------------------------------------------

Undef == [t |-> "undefined"]

Null == [t |-> "null"]

NaN == [t |-> "nan"]

Bool(b) == [t |-> "bool", v |-> b]

Str(s) == [t |-> "str", v |-> s]

\* the number m / 10^e
RECURSIVE Num(_, _)
Num(m, e) == IF e > 0 /\ m % 10 = 0 THEN Num(m \div 10, e - 1) ELSE [t |-> "num", m |-> m, e |-> e]

IntV(n) == Num(n, 0)

\* an object: id is its identity, v maps its own keys (strings) to values
Obj(id, f) == [t |-> "obj", id |-> id, v |-> f]

\* an array: id is its identity, v the sequence of its elements
Arr(id, es) == [t |-> "arr", id |-> id, v |-> es]

\* the outcome of an expression that throws
Throw(kind) == [t |-> "throw", kind |-> kind]

IsThrow(x) == x.t = "throw"

RECURSIVE Pow10(_)
Pow10(e) == IF e = 0 THEN 1 ELSE 10 * Pow10(e - 1)

Abs(n) == IF n < 0 THEN -n ELSE n

RECURSIVE NatToStr(_)
NatToStr(n) == IF n < 10 THEN <<Digits[n + 1]>> ELSE NatToStr(n \div 10) \o <<Digits[(n % 10) + 1]>>

\* the digits of n, left-padded with zeros to width w
RECURSIVE PadNat(_, _)
PadNat(n, w) == IF w = 0 THEN <<>> ELSE PadNat(n \div 10, w - 1) \o <<Digits[(n % 10) + 1]>>

\* Number.prototype.toString for the decimal numbers of the model
NumToStr(x) ==
    LET a == Abs(x.m)
        p == Pow10(x.e)
    IN  (IF x.m < 0 THEN <<"-">> ELSE <<>>)
        \o NatToStr(a \div p)
        \o (IF x.e = 0 THEN <<>> ELSE <<".">> \o PadNat(a % p, x.e))

\* String(value)
RECURSIVE ToStr(_)
ToStr(x) ==
    CASE x.t = "undefined" -> <<"u", "n", "d", "e", "f", "i", "n", "e", "d">>
      [] x.t = "null" -> <<"n", "u", "l", "l">>
      [] x.t = "nan" -> <<"N", "a", "N">>
      [] x.t = "bool" -> IF x.v THEN <<"t", "r", "u", "e">> ELSE <<"f", "a", "l", "s", "e">>
      [] x.t = "num" -> NumToStr(x)
      [] x.t = "str" -> x.v
      [] x.t = "obj" -> <<"[", "o", "b", "j", "e", "c", "t", " ", "O", "b", "j", "e", "c", "t", "]">>
      [] x.t = "arr" ->
            \* Array.prototype.join(','): null and undefined elements are empty
            JoinAll([k \in 1..Len(x.v) |->
                        (IF k > 1 THEN <<",">> ELSE <<>>)
                        \o (IF x.v[k].t \in {"undefined", "null"} THEN <<>> ELSE ToStr(x.v[k]))])

\* ToBoolean(value)
Truthy(x) ==
    CASE x.t \in {"undefined", "null", "nan"} -> FALSE
      [] x.t = "bool" -> x.v
      [] x.t = "num" -> x.m # 0
      [] x.t = "str" -> x.v # <<>>
      [] x.t \in {"obj", "arr"} -> TRUE

AllDigits(s) == \A k \in 1..Len(s) : IsDigit(s[k])

RECURSIVE DigitsToNat(_)
DigitsToNat(s) == IF s = <<>> THEN 0 ELSE 10 * DigitsToNat(SubSeq(s, 1, Len(s) - 1)) + DigitVal(s[Len(s)])

\* /^-?\d+(\.\d+)?$/.test(s)
IsNumberLiteral(s) ==
    LET u == IF s # <<>> /\ s[1] = "-" THEN Tail(s) ELSE s
        d == FindLit(u, 1, <<".">>)
    IN  IF d = 0 THEN u # <<>> /\ AllDigits(u)
        ELSE /\ d > 1 /\ d < Len(u)
             /\ AllDigits(SubSeq(u, 1, d - 1))
             /\ AllDigits(SubSeq(u, d + 1, Len(u)))

\* parseFloat(s) for an s that IsNumberLiteral accepts
ParseFloat(s) ==
    LET neg == s[1] = "-"
        u == IF neg THEN Tail(s) ELSE s
        d == FindLit(u, 1, <<".">>)
        ip == IF d = 0 THEN u ELSE SubSeq(u, 1, d - 1)
        fp == IF d = 0 THEN <<>> ELSE SubSeq(u, d + 1, Len(u))
        a == DigitsToNat(ip \o fp)
    IN  Num(IF neg THEN -a ELSE a, Len(fp))

\* ToNumber(string): white space is trimmed, the empty string is 0, a decimal
\* literal with an optional sign is its value, any other text is NaN
\* (exponents, hexadecimal literals and Infinity are outside the model)
StrToNumber(s) ==
    LET u == Trim(s)
        v == IF u # <<>> /\ u[1] = "+" THEN Tail(u) ELSE u
    IN  IF u = <<>> THEN IntV(0)
        ELSE IF IsNumberLiteral(v) THEN ParseFloat(v)
        ELSE NaN

\* the abstract equality comparison x == y
RECURSIVE LooseEq(_, _)
LooseEq(x, y) ==
    CASE x.t = "nan" \/ y.t = "nan" -> FALSE
      [] x.t \in {"undefined", "null"} -> y.t \in {"undefined", "null"}
      [] y.t \in {"undefined", "null"} -> FALSE
      [] x.t = "bool" -> LooseEq(IntV(IF x.v THEN 1 ELSE 0), y)
      [] y.t = "bool" -> LooseEq(x, IntV(IF y.v THEN 1 ELSE 0))
      [] x.t \in {"obj", "arr"} /\ y.t \in {"obj", "arr"} -> x.id = y.id
      [] x.t \in {"obj", "arr"} -> LooseEq(Str(ToStr(x)), y)
      [] y.t \in {"obj", "arr"} -> LooseEq(x, Str(ToStr(y)))
      [] x.t = "num" /\ y.t = "num" -> x.m = y.m /\ x.e = y.e
      [] x.t = "str" /\ y.t = "str" -> x.v = y.v
      [] x.t = "num" /\ y.t = "str" -> LooseEq(x, StrToNumber(y.v))
      [] x.t = "str" /\ y.t = "num" -> LooseEq(StrToNumber(x.v), y)

\* whether key is a canonical array index ("0", "1", ..., no leading zero)
IsIndexKey(key) == key # <<>> /\ AllDigits(key) /\ (Len(key) = 1 \/ key[1] # "0")

\* obj[key]: the property read of JavaScript.  Reading a property of null or
\* undefined throws a TypeError; properties inherited from the built-in
\* prototypes (toString, constructor, ...) are outside the model.
GetProp(obj, key) ==
    CASE obj.t \in {"undefined", "null"} -> Throw("TypeError")
      [] obj.t = "obj" -> IF key \in DOMAIN obj.v THEN obj.v[key] ELSE Undef
      [] obj.t = "arr" ->
            IF key = LIT_length THEN IntV(Len(obj.v))
            ELSE IF IsIndexKey(key) /\ DigitsToNat(key) < Len(obj.v) THEN obj.v[DigitsToNat(key) + 1]
            ELSE Undef
      [] obj.t = "str" ->
            IF key = LIT_length THEN IntV(Len(obj.v))
            ELSE IF IsIndexKey(key) /\ DigitsToNat(key) < Len(obj.v) THEN Str(<<obj.v[DigitsToNat(key) + 1]>>)
            ELSE Undef
      [] OTHER -> Undef

\* ------------------------------------------------------------------------
\* TemplateEngine
\* ------------------------------------------------------------------------

\* the result of a rendering stage: the text, the helper calls made, in
\* order, and the identities of the objects that properties were written to,
\* or the error that was thrown
NoError == [kind |-> "", detail |-> ""]

Ok(text, calls) ==
    [ok |-> TRUE, text |-> text, calls |-> calls, written |-> {}, error |-> NoError]

\* the call threw an error: kind is the error's name or the fixed part of its
\* message, detail the interpolated part of the message
Fail(kind, detail) ==
    [ok |-> FALSE, text |-> <<>>, calls |-> <<>>, written |-> {},
     error |-> [kind |-> kind, detail |-> detail]]

\* the result r of the rest of a replace, after text and calls
Prepend(text, calls, r) ==
    IF r.ok THEN [r EXCEPT !.text = text \o @, !.calls = calls \o @] ELSE r

\* the result r of a stage that also wrote to the objects ids
Wrote(ids, r) == [r EXCEPT !.written = @ \cup ids]

\* one step of String.prototype.replace with a callback: the text before the
\* match, the outcome r of the callback on the match, and the outcome of the
\* replace on the text after the match; an error of the callback ends the call
AndThen(before, r, rest) ==
    IF ~r.ok THEN r ELSE Prepend(before \o r.text, r.calls, Wrote(r.written, rest))

\* the position of the leftmost match among the positions M, 0 when none
FirstPos(M) == IF M = {} THEN 0 ELSE MinOf(M)

\* PathStep without the guard on obj: obj[key] is read whatever obj is
PathStepUnguarded(obj, key) ==
    IF IsThrow(obj) THEN obj ELSE GetProp(obj, key)

\* one step of the reduce over a dotted path:
\*   obj && obj[key] !== undefined ? obj[key] : undefined
PathStep(obj, key) ==
    IF IsThrow(obj) THEN obj
    ELSE IF Truthy(obj) /\ GetProp(obj, key) # Undef THEN GetProp(obj, key)
    ELSE Undef

RECURSIVE ReducePath(_, _)
ReducePath(keys, obj) ==
    IF keys = <<>> THEN obj ELSE ReducePath(Tail(keys), PathStep(obj, Head(keys)))

\* path.split('.').reduce(..., context)
ResolvePath(path, context) == ReducePath(SplitLit(path, <<".">>), context)

\* the capture of \s*([^}]+?)\s* on the text between the braces: the text
\* trimmed, or its last character when it is white space only
CapturePath(content) ==
    IF AllSpace(content) THEN <<content[Len(content)]>> ELSE Trim(content)

NoMatch == [found |-> FALSE]

\* a match of /\{\{\s*([^}]+?)\s*\}\}/ starting at position i
VarMatch(s, i) ==
    IF ~StartsWithAt(s, i, <<"{", "{">>) THEN NoMatch
    ELSE LET j == FirstCloseBrace(s, i + 2)
         IN  IF j <= i + 2 \/ ~StartsWithAt(s, j, <<"}", "}">>) THEN NoMatch
             ELSE [found |-> TRUE, end |-> j + 1, path |-> CapturePath(SubSeq(s, i + 2, j - 1))]

\* VariableText with the test inverted: value === undefined ? String(value) : ''
VariableTextInverted(value) ==
    IF IsThrow(value) THEN Fail(value.kind, "")
    ELSE Ok(IF value = Undef THEN ToStr(value) ELSE <<>>, <<>>)

\* the callback of replaceVariables on the resolved value:
\*   value !== undefined ? String(value) : ''
VariableText(value) ==
    IF IsThrow(value) THEN Fail(value.kind, "")
    ELSE Ok(IF value # Undef THEN ToStr(value) ELSE <<>>, <<>>)

RECURSIVE ReplaceVariablesFrom(_, _, _)

\* the replace of replaceVariables on s from position i, the leftmost match
\* being at j (0: none)
ReplaceVariableAt(s, i, j, context) ==
    IF j = 0 THEN Ok(SubSeq(s, i, Len(s)), <<>>)
    ELSE AndThen(SubSeq(s, i, j - 1),
                 VariableText(ResolvePath(VarMatch(s, j).path, context)),
                 ReplaceVariablesFrom(s, VarMatch(s, j).end + 1, context))

ReplaceVariablesFrom(s, i, context) ==
    ReplaceVariableAt(s, i, FirstPos({j \in i..Len(s) : VarMatch(s, j).found}), context)

\* TemplateEngine.replaceVariables, applied to the outcome r of the stage
\* before it
replaceVariables(r, context) ==
    IF ~r.ok THEN r ELSE ReplaceVariablesFrom(r.text, 1, context)

\* TemplateEngine.resolveValue
resolveValue(value, context) ==
    LET v == Trim(value)
    IN  IF v # <<>> /\ v[1] = "\"" /\ v[Len(v)] = "\"" THEN Str(SubSeq(v, 2, Len(v) - 1))
        ELSE IF IsNumberLiteral(v) THEN ParseFloat(v)
        ELSE IF v = LIT_true THEN Bool(TRUE)
        ELSE IF v = LIT_false THEN Bool(FALSE)
        ELSE IF v = LIT_null THEN Null
        ELSE IF v = LIT_undefined THEN Undef
        ELSE ResolvePath(v, context)

\* the condition of an {{#if}}: [value |-> BOOLEAN] or a thrown error
\* leftValue == rightValue
Equals(leftValue, rightValue) ==
    IF IsThrow(leftValue) THEN leftValue
    ELSE IF IsThrow(rightValue) THEN rightValue
    ELSE Bool(LooseEq(leftValue, rightValue))

\* Boolean(value)
ToBoolean(value) == IF IsThrow(value) THEN value ELSE Bool(Truthy(value))

CondValue(condition, context) ==
    IF Includes(condition, <<"=", "=">>)
    THEN Equals(resolveValue(Trim(SplitLit(condition, <<"=", "=">>)[1]), context),
                resolveValue(Trim(SplitLit(condition, <<"=", "=">>)[2]), context))
    ELSE ToBoolean(resolveValue(condition, context))

\* the capture of \s+([^}]+?)\s* on the text that follows a directive name;
\* found is false when the text does not start with white space followed by
\* at least one more character
DirectiveArg(content) ==
    IF Len(content) < 2 \/ ~IsSpace(content[1]) THEN NoMatch
    ELSE [found |-> TRUE, arg |-> CapturePath(content)]

\* a match of
\*   /\{\{#if\s+([^}]+?)\s*\}\}([\s\S]*?)(?:\{\{#else\}\}([\s\S]*?))?\{\{\/if\}\}/
\* starting at position i
IfMatch(s, i) ==
    IF ~StartsWithAt(s, i, LIT_ifOpen) THEN NoMatch
    ELSE LET j == FirstCloseBrace(s, i + 5)
         IN  IF j = 0 \/ ~StartsWithAt(s, j, <<"}", "}">>) THEN NoMatch
             ELSE LET a == DirectiveArg(SubSeq(s, i + 5, j - 1))
                      b == j + 2
                      e1 == FindLit(s, b, LIT_else)
                      e2 == FindLit(s, b, LIT_ifClose)
                  IN  IF ~a.found \/ e2 = 0 THEN NoMatch
                      ELSE IF e1 # 0 /\ e1 < e2
                      THEN [found |-> TRUE, end |-> e2 + 6, condition |-> a.arg,
                            ifContent |-> SubSeq(s, b, e1 - 1),
                            elseContent |-> SubSeq(s, e1 + 9, e2 - 1)]
                      ELSE [found |-> TRUE, end |-> e2 + 6, condition |-> a.arg,
                            ifContent |-> SubSeq(s, b, e2 - 1),
                            elseContent |-> <<>>]

\* the callback of processConditionals on the value c of the condition:
\*   c ? ifContent : elseContent
ConditionalText(c, ifContent, elseContent) ==
    IF IsThrow(c) THEN Fail(c.kind, "")
    ELSE Ok(IF c.v THEN ifContent ELSE elseContent, <<>>)

RECURSIVE ProcessConditionalsFrom(_, _, _)

\* the replace of processConditionals on s from position i, the leftmost
\* match being at j (0: none)
ProcessConditionalAt(s, i, j, context) ==
    IF j = 0 THEN Ok(SubSeq(s, i, Len(s)), <<>>)
    ELSE AndThen(SubSeq(s, i, j - 1),
                 ConditionalText(CondValue(IfMatch(s, j).condition, context),
                                 IfMatch(s, j).ifContent, IfMatch(s, j).elseContent),
                 ProcessConditionalsFrom(s, IfMatch(s, j).end + 1, context))

ProcessConditionalsFrom(s, i, context) ==
    ProcessConditionalAt(s, i, FirstPos({j \in i..Len(s) : IfMatch(s, j).found}), context)

\* TemplateEngine.processConditionals, applied to the outcome r of the stage
\* before it
processConditionals(r, context) ==
    IF ~r.ok THEN r ELSE ProcessConditionalsFrom(r.text, 1, context)

\* a match of /\{\{#each\s+([^}]+?)\s*\}\}([\s\S]*?)\{\{\/each\}\}/ starting
\* at position i
EachMatch(s, i) ==
    IF ~StartsWithAt(s, i, LIT_eachOpen) THEN NoMatch
    ELSE LET j == FirstCloseBrace(s, i + 7)
         IN  IF j = 0 \/ ~StartsWithAt(s, j, <<"}", "}">>) THEN NoMatch
             ELSE LET a == DirectiveArg(SubSeq(s, i + 7, j - 1))
                      b == j + 2
                      e == FindLit(s, b, LIT_eachClose)
                  IN  IF ~a.found \/ e = 0 THEN NoMatch
                      ELSE [found |-> TRUE, end |-> e + 8, itemsPath |-> a.arg,
                            content |-> SubSeq(s, b, e - 1)]

\* ItemContext that binds item and index on the context itself:
\*   Object.assign(context, { item, index })
ItemContextInPlace(context, item, index) ==
    Obj(context.id,
        [k \in DOMAIN context.v \cup {LIT_item, LIT_index} |->
            IF k = LIT_item THEN item
            ELSE IF k = LIT_index THEN IntV(index)
            ELSE context.v[k]])

\* { ...context, item, index }: a new object that holds the properties of
\* context and the two bindings
ItemContext(context, item, index) ==
    Obj(context.id + 1,
        [k \in DOMAIN context.v \cup {LIT_item, LIT_index} |->
            IF k = LIT_item THEN item
            ELSE IF k = LIT_index THEN IntV(index)
            ELSE context.v[k]])

\* the body of the items.map callback of processLoops, with the context
\* itemContext of the element:
\*   itemContent = this.replaceVariables(content, itemContext)
\*   itemContent = this.processConditionals(itemContent, itemContext)
LoopItem(content, itemContext) ==
    Wrote({itemContext.id},
          processConditionals(replaceVariables(Ok(content, <<>>), itemContext), itemContext))

\* items.map(...).join('') from element k on
RECURSIVE LoopItemsFrom(_, _, _, _)
LoopItemsFrom(content, context, items, k) ==
    IF k > Len(items.v) THEN Ok(<<>>, <<>>)
    ELSE AndThen(<<>>,
                 LoopItem(content, ItemContext(context, items.v[k], k - 1)),
                 LoopItemsFrom(content, context, items, k + 1))

\* the callback of processLoops on the resolved items:
\*   if (!Array.isArray(items)) return ''
\*   return items.map(...).join('')
LoopText(content, context, items) ==
    IF IsThrow(items) THEN Fail(items.kind, "")
    ELSE IF items.t # "arr" THEN Ok(<<>>, <<>>)
    ELSE LoopItemsFrom(content, context, items, 1)

RECURSIVE ProcessLoopsFrom(_, _, _)

\* the replace of processLoops on s from position i, the leftmost match
\* being at j (0: none)
ProcessLoopAt(s, i, j, context) ==
    IF j = 0 THEN Ok(SubSeq(s, i, Len(s)), <<>>)
    ELSE AndThen(SubSeq(s, i, j - 1),
                 LoopText(EachMatch(s, j).content, context,
                          ResolvePath(EachMatch(s, j).itemsPath, context)),
                 ProcessLoopsFrom(s, EachMatch(s, j).end + 1, context))

ProcessLoopsFrom(s, i, context) ==
    ProcessLoopAt(s, i, FirstPos({j \in i..Len(s) : EachMatch(s, j).found}), context)

\* TemplateEngine.processLoops, applied to the outcome r of the stage before it
processLoops(r, context) ==
    IF ~r.ok THEN r ELSE ProcessLoopsFrom(r.text, 1, context)

\* str.replace(/([a-z])([A-Z])/g, '$1-$2')
RECURSIVE SplitCamel(_)
SplitCamel(s) ==
    IF s = <<>> THEN <<>>
    ELSE IF Len(s) >= 2 /\ IsLower(s[1]) /\ IsUpper(s[2])
         THEN <<s[1], "-", s[2]>> \o SplitCamel(SubSeq(s, 3, Len(s)))
         ELSE <<s[1]>> \o SplitCamel(Tail(s))

\* str.replace(/\s+/g, '-')
RECURSIVE DashSpaces(_)
DashSpaces(s) ==
    IF s = <<>> THEN <<>>
    ELSE IF IsSpace(s[1])
         THEN LET N == {k \in 1..Len(s) : ~IsSpace(s[k])}
              IN  <<"-">> \o (IF N = {} THEN <<>> ELSE DashSpaces(SubSeq(s, MinOf(N), Len(s))))
         ELSE <<s[1]>> \o DashSpaces(Tail(s))

\* the helper functions of the model: capitalize and kebabCase of
\* reactTsTemplate.helpers, applied to the argument list args.  Both call a
\* string method on their first argument, which throws a TypeError when the
\* argument is not a string.
ApplyHelper(h, args) ==
    LET str == IF args = <<>> THEN Undef ELSE args[1]
    IN  IF str.t # "str" THEN Throw("TypeError")
        ELSE IF h = "capitalize"
             THEN Str(IF str.v = <<>> THEN <<>> ELSE <<ToUpperChar(str.v[1])>> \o Tail(str.v))
        ELSE Str([k \in 1..Len(DashSpaces(SplitCamel(str.v))) |->
                     ToLowerChar(DashSpaces(SplitCamel(str.v))[k])])

\* InvokeHelper without the try/catch: the error of the helper propagates
InvokeHelperUncaught(h, args) == ApplyHelper(h, args)

\* try { return helper(...args) } catch (error) { console.error(...); return '' }
InvokeHelper(h, args) ==
    LET r == ApplyHelper(h, args)
    IN  IF IsThrow(r) THEN Str(<<>>) ELSE r

\* the leading run of \w characters of s
WordPrefix(s) ==
    LET N == {k \in 1..Len(s) : ~IsWord(s[k])}
    IN  IF N = {} THEN s ELSE SubSeq(s, 1, MinOf(N) - 1)

\* the capture of (?:\s+([^}]+?))? directly followed by the closing braces:
\* the text after the leading white space, up to the braces
HelperArgs(rest) ==
    IF AllSpace(rest) THEN <<rest[Len(rest)]>>
    ELSE SubSeq(rest, MinOf({k \in 1..Len(rest) : ~IsSpace(rest[k])}), Len(rest))

\* a match of /\{\{(\w+)(?:\s+([^}]+?))?\}\}/ starting at position i
HelperMatch(s, i) ==
    IF ~StartsWithAt(s, i, <<"{", "{">>) THEN NoMatch
    ELSE LET helperName == WordPrefix(SubSeq(s, i + 2, Len(s)))
             k == i + 2 + Len(helperName)
             j == FirstCloseBrace(s, k)
         IN  IF helperName = <<>> \/ j = 0 \/ ~StartsWithAt(s, j, <<"}", "}">>) THEN NoMatch
             ELSE IF j = k
             THEN [found |-> TRUE, end |-> j + 1, helperName |-> helperName,
                   between |-> <<>>, argsString |-> <<>>]
             ELSE IF j - k < 2 \/ ~IsSpace(s[k]) THEN NoMatch
             ELSE [found |-> TRUE, end |-> j + 1, helperName |-> helperName,
                   between |-> SubSeq(s, k, j - 1),
                   argsString |-> HelperArgs(SubSeq(s, k, j - 1))]

\* args.map(arg => this.resolveValue(arg, context))
ResolveArgs(parts, context) == [a \in 1..Len(parts) |-> resolveValue(parts[a], context)]

\* the call of the registered helper h on the resolved arguments: the text
\* it is replaced with, and the record of the call
HelperText(h, helperName, args, r) ==
    IF \E a \in 1..Len(args) : IsThrow(args[a])
    THEN Fail(args[MinOf({a \in 1..Len(args) : IsThrow(args[a])})].kind, "")
    ELSE IF IsThrow(r) THEN Fail(r.kind, "")
    ELSE Ok(ToStr(r), <<[helperName |-> helperName, args |-> args,
                         raised |-> IsThrow(ApplyHelper(h, args))]>>)

\* the callback of processHelpers on the match m
HelperCall(hs, m, args) ==
    IF m.helperName \notin DOMAIN hs
    THEN \* return match: the unknown helper is kept
         Ok(<<"{", "{">> \o m.helperName \o m.between \o <<"}", "}">>, <<>>)
    ELSE HelperText(hs[m.helperName], m.helperName, args,
                    InvokeHelper(hs[m.helperName], args))

RECURSIVE ProcessHelpersFrom(_, _, _, _)

\* the replace of processHelpers on s from position i, the leftmost match
\* being at j (0: none)
ProcessHelperAt(hs, s, i, j, context) ==
    IF j = 0 THEN Ok(SubSeq(s, i, Len(s)), <<>>)
    ELSE AndThen(SubSeq(s, i, j - 1),
                 HelperCall(hs, HelperMatch(s, j),
                            ResolveArgs(SplitSpaces(HelperMatch(s, j).argsString), context)),
                 ProcessHelpersFrom(hs, s, HelperMatch(s, j).end + 1, context))

ProcessHelpersFrom(hs, s, i, context) ==
    ProcessHelperAt(hs, s, i, FirstPos({j \in i..Len(s) : HelperMatch(s, j).found}), context)

\* TemplateEngine.processHelpers, with the helper map hs, applied to the
\* outcome r of the stage before it
processHelpers(hs, r, context) ==
    IF ~r.ok THEN r ELSE Wrote(r.written, ProcessHelpersFrom(hs, r.text, 1, context))

\* TemplateEngine.render, with the template map ts and the helper map hs
render(ts, hs, templateName, context) ==
    IF templateName \notin DOMAIN ts \/ ts[templateName] = <<>>
    THEN Fail("Template not found", templateName)
    ELSE processHelpers(hs,
             processLoops(
                 processConditionals(
                     replaceVariables(Ok(ts[templateName], <<>>), context),
                     context),
                 context),
             context)

\* ------------------------------------------------------------------------
\* State
\* ------------------------------------------------------------------------

VARIABLES
    templates,        \* TemplateEngine.templates: template name -> text
    helpers,          \* TemplateEngine.helpers: helper name -> helper function
    genTemplates,     \* CodeGenerator.templates: generator name -> TemplateConfig
    genOrder,         \* the insertion order of the keys of CodeGenerator.templates
    activeTemplate,   \* CodeGenerator.activeTemplate
    firstRegistered,  \* history: the name of the first registerTemplate(config) call
    importMap,        \* DynamicImportManager.importMap: component name -> path and weight
    componentsSlice,  \* useEditorStore: state.components (byId, rootIds)
    selectionSlice,   \* useEditorStore: state.selection (selectedComponentId, multiSelection)
    historySlice,     \* useEditorStore: state.history (past, future, currentIndex)
    tasks,            \* RenderTaskScheduler.tasks
    isRunning,        \* RenderTaskScheduler.isRunning
    idleCallbackId,   \* RenderTaskScheduler.idleCallbackId
    window,           \* the browser: whether it has requestIdleCallback, and the callbacks it holds
    taskLog,          \* history: the tasks added, executed and cancelled so far
    last              \* the most recent call and what it returned or threw

vars == <<templates, helpers, genTemplates, genOrder, activeTemplate, firstRegistered, importMap,
          componentsSlice, selectionSlice, historySlice, tasks, isRunning, idleCallbackId, window, taskLog, last>>

engineVars == <<templates, helpers>>

generatorVars == <<genTemplates, genOrder, activeTemplate, firstRegistered>>

importVars == <<importMap>>

storeVars == <<componentsSlice, selectionSlice, historySlice>>

schedulerVars == <<tasks, isRunning, idleCallbackId, window, taskLog>>

\* null, for a store field or an argument that holds a component id
NullId == "null"

\* null, for idleCallbackId; the handles the browser returns are positive
NoCallback == 0

\* the initial state of useEditorStore (selection.hoveredComponentId and
\* the slices canvas, mode, ui and project are not modelled)
InitStore ==
    /\ componentsSlice = [byId |-> <<>>, rootIds |-> <<>>]
    /\ selectionSlice = [selectedComponentId |-> NullId, multiSelection |-> <<>>]
    /\ historySlice = [past |-> <<>>, future |-> <<>>, currentIndex |-> -1]

\* a RenderTaskScheduler after construction, in a browser that has
\* requestIdleCallback and cancelIdleCallback (idle) or has neither
InitSchedulerIn(idle) ==
    /\ tasks = <<>>
    /\ isRunning = FALSE
    /\ idleCallbackId = NoCallback
    /\ window = [requestIdleCallback |-> idle, callbacks |-> {}]
    /\ taskLog = [added |-> <<>>, executed |-> <<>>, cancelled |-> {}]

\* Map.prototype.set(key, value)
MapSet(m, key, value) == [k \in DOMAIN m \cup {key} |-> IF k = key THEN value ELSE m[k]]

EmptyMap == <<>>

\* ------------------------------------------------------------------------
\* TemplateEngine: the calls made on one engine
\* ------------------------------------------------------------------------

\* the largest number of templates and of helpers registered on the engine
MaxTemplates == 1

MaxHelpers == 1

\* the templates that are registered: name and text
TemplatePool ==
    { <<"cond", <<"{", "{", "#", "i", "f", " ", "a", " ", "=", "=", " ", "b", "}", "}", "X", "{", "{", "#", "e", "l", "s", "e", "}", "}", "Y", "{", "{", "/", "i", "f", "}", "}">>>>,
      <<"loop", <<"{", "{", "#", "e", "a", "c", "h", " ", "i", "t", "e", "m", "s", "}", "}", "[", "{", "{", "i", "t", "e", "m", "}", "}", "]", "{", "{", "/", "e", "a", "c", "h", "}", "}">>>>,
      <<"unknown", <<"{", "{", "u", "n", "k", "n", "o", "w", "n", "H", "e", "l", "p", "e", "r", " ", "x", "}", "}">>>>,
      <<"helper", <<"<", "{", "{", "c", "a", "p", "i", "t", "a", "l", "i", "z", "e", " ", "n", "a", "m", "e", "}", "}", ">">>>>,
      <<"paths", <<"{", "{", "u", "s", "e", "r", ".", "n", "a", "m", "e", "}", "}", "|", "{", "{", " ", "a", ".", "b", ".", "c", " ", "}", "}", "|", "{", "{", "x", "}", "}">>>>,
      <<"snippet", <<"{", "{", "s", "n", "i", "p", "p", "e", "t", "}", "}", "!", "{", "{", "x", "}", "}">>>>,
      <<"empty", <<>>>>,
      <<"empty", <<"p", "l", "a", "i", "n">>>> }

TemplateNames == {p[1] : p \in TemplatePool}

\* the helpers that are registered: name and function
HelperPool ==
    { <<<<"c", "a", "p", "i", "t", "a", "l", "i", "z", "e">>, "capitalize">>,
      <<<<"k", "e", "b", "a", "b", "C", "a", "s", "e">>, "kebabCase">>,
      <<<<"c", "a", "p", "i", "t", "a", "l", "i", "z", "e">>, "kebabCase">> }

\* the contexts that templates are rendered with
ContextPool ==
    << Obj(0, (<<"a">> :> IntV(1)) @@ (<<"b">> :> IntV(1))),
       Obj(0, (<<"a">> :> IntV(1)) @@ (<<"b">> :> IntV(2))),
       Obj(0, (<<"i", "t", "e", "m", "s">> :> Arr(1, <<IntV(1), IntV(2), IntV(3)>>))),
       Obj(0, EmptyMap),
       Obj(0, (<<"x">> :> IntV(1))),
       Obj(0, (<<"n", "a", "m", "e">> :> Str(<<"a", "b">>)) @@ (<<"x">> :> Str(<<"q">>))
              @@ (<<"u", "s", "e", "r">> :> Obj(1, (<<"n", "a", "m", "e">> :> Str(<<"b", "o">>))))
              @@ (<<"a">> :> Obj(2, (<<"b">> :> Obj(3, (<<"c">> :> IntV(7))))))),
       Obj(0, (<<"u", "s", "e", "r">> :> Null) @@ (<<"a">> :> Obj(1, (<<"b">> :> IntV(0))))
              @@ (<<"x">> :> Bool(FALSE)) @@ (<<"n", "a", "m", "e">> :> IntV(5))),
       Obj(0, (<<"u", "s", "e", "r">> :> Str(<<"s", "t", "r">>)) @@ (<<"a">> :> IntV(5)) @@ (<<"x">> :> IntV(1))
              @@ (<<"s", "n", "i", "p", "p", "e", "t">> :> Str(<<"{", "{", "c", "a", "p", "i", "t", "a", "l", "i", "z", "e", " ", "m", "i", "s", "s", "i", "n", "g", "}", "}", "{", "{", "c", "a", "p", "i", "t", "a", "l", "i", "z", "e", " ", "\"", "a", "b", "\"", "}", "}">>))),
       Obj(0, (<<"n", "a", "m", "e">> :> Str(<<"a", "b">>)) @@ (<<"x">> :> IntV(2))
              @@ (<<"s", "n", "i", "p", "p", "e", "t">> :> Str(<<"{", "{", "k", "e", "b", "a", "b", "C", "a", "s", "e", " ", "\"", "f", "o", "o", "B", "a", "r", "\"", "}", "}", "{", "{", "c", "a", "p", "i", "t", "a", "l", "i", "z", "e", " ", "n", "a", "m", "e", "}", "}">>))),
       Obj(0, (<<"i", "t", "e", "m", "s">> :> Arr(1, <<IntV(1), IntV(2)>>)) @@ (<<"x">> :> IntV(1))
              @@ (<<"s", "n", "i", "p", "p", "e", "t">> :> Str(<<"{", "{", "#", "e", "a", "c", "h", " ", "i", "t", "e", "m", "s", "}", "}", "[", "{", "{", "i", "t", "e", "m", "}", "}", "{", "{", "i", "n", "d", "e", "x", "}", "}", "]", "{", "{", "/", "e", "a", "c", "h", "}", "}">>))) >>

NoResult == [ok |-> TRUE, text |-> <<>>, calls |-> <<>>, written |-> {}, error |-> NoError]

\* engine.registerTemplate(name, template)
EngineRegisterTemplate(name, template) ==
    /\ name \in DOMAIN templates \/ Cardinality(DOMAIN templates) < MaxTemplates
    /\ templates' = MapSet(templates, name, template)
    /\ last' = [op |-> "registerTemplate", name |-> name, ctx |-> 0, result |-> NoResult]
    /\ UNCHANGED <<helpers, generatorVars, importVars, storeVars, schedulerVars>>

\* engine.registerHelper(name, helper)
EngineRegisterHelper(name, helper) ==
    /\ name \in DOMAIN helpers \/ Cardinality(DOMAIN helpers) < MaxHelpers
    /\ helpers' = MapSet(helpers, name, helper)
    /\ last' = [op |-> "registerHelper", name |-> "", ctx |-> 0, result |-> NoResult]
    /\ UNCHANGED <<templates, generatorVars, importVars, storeVars, schedulerVars>>

\* engine.render(templateName, ContextPool[c])
EngineRender(templateName, c) ==
    /\ last' = [op |-> "render", name |-> templateName, ctx |-> c,
                result |-> render(templates, helpers, templateName, ContextPool[c])]
    /\ UNCHANGED <<templates, helpers, generatorVars, importVars, storeVars, schedulerVars>>

InitEngine ==
    /\ templates = EmptyMap
    /\ helpers = EmptyMap
    /\ genTemplates = EmptyMap
    /\ genOrder = <<>>
    /\ activeTemplate = Null
    /\ firstRegistered = Null
    /\ importMap = EmptyMap
    /\ InitStore
    /\ InitSchedulerIn(TRUE)
    /\ last = [op |-> "init", name |-> "", ctx |-> 0, result |-> NoResult]

NextEngine ==
    \/ \E p \in TemplatePool : EngineRegisterTemplate(p[1], p[2])
    \/ \E p \in HelperPool : EngineRegisterHelper(p[1], p[2])
    \/ \E n \in TemplateNames, c \in 1..Len(ContextPool) : EngineRender(n, c)

SpecEngine == InitEngine /\ [][NextEngine]_vars

\* ------------------------------------------------------------------------
\* Properties of TemplateEngine.render (SpecEngine)
\* ------------------------------------------------------------------------

\* the last call was a render of the registered template name
Rendered(name) ==
    /\ last.op = "render"
    /\ last.name = name
    /\ name \in DOMAIN templates

\* context[key] of the context of the last render, undefined when absent
CtxValue(key) ==
    LET context == ContextPool[last.ctx]
    IN  IF key \in DOMAIN context.v THEN context.v[key] ELSE Undef

\* C1: rendering {{#if a == b}}X{{#else}}Y{{/if}} returns exactly "X" when
\* the context values of a and b are equal and exactly "Y" when they differ:
\* the output is the matched branch only.
C1_ConditionalCorrectness ==
    Rendered("cond") =>
        /\ last.result.ok
        /\ last.result.text = IF LooseEq(CtxValue(<<"a">>), CtxValue(<<"b">>)) THEN <<"X">> ELSE <<"Y">>

\* the concatenation of "[" element "]" over the elements es
RECURSIVE Bracketed(_)
Bracketed(es) ==
    IF es = <<>> THEN <<>> ELSE <<"[">> \o ToStr(Head(es)) \o <<"]">> \o Bracketed(Tail(es))

\* C2: rendering {{#each items}}[{{item}}]{{/each}} returns the body once per
\* element of items, in order, with item bound to the element ("[1][2][3]"
\* for items = [1,2,3]), and "" when items is absent or not a sequence.
C2_LoopExpansion ==
    Rendered("loop") =>
        /\ last.result.ok
        /\ last.result.text = IF CtxValue(<<"i", "t", "e", "m", "s">>).t = "arr"
                              THEN Bracketed(CtxValue(<<"i", "t", "e", "m", "s">>).v)
                              ELSE <<>>

\* C3: a marker {{unknownHelper x}} whose helper name is not registered
\* appears verbatim in the output of render.
C3_UnknownHelperPassThrough ==
    (Rendered("unknown") /\ <<"u", "n", "k", "n", "o", "w", "n", "H", "e", "l", "p", "e", "r">> \notin DOMAIN helpers) =>
        /\ last.result.ok
        /\ last.result.text = templates["unknown"]

\* C4: render replaces the marker {{capitalize name}} of a registered helper
\* by the string the helper returns for the resolved argument, and invokes
\* the helper exactly once for the marker.
C4_RegisteredHelperApplied ==
    (Rendered("helper") /\ <<"c", "a", "p", "i", "t", "a", "l", "i", "z", "e">> \in DOMAIN helpers) =>
        LET args == <<CtxValue(<<"n", "a", "m", "e">>)>>
            r == ApplyHelper(helpers[<<"c", "a", "p", "i", "t", "a", "l", "i", "z", "e">>], args)
        IN  /\ last.result.ok
            /\ Len(last.result.calls) = 1
            /\ last.result.calls[1].args = args
            /\ last.result.text = <<"<">> \o (IF IsThrow(r) THEN <<>> ELSE ToStr(r)) \o <<">">>

\* the paths of the markers of the template "paths", in order
PathsOfTemplate == << <<<<"u", "s", "e", "r">>, <<"n", "a", "m", "e">>>>, <<<<"a">>, <<"b">>, <<"c">>>>, <<<<"x">>>> >>

\* some segment of the path keys is missing or undefined when the path is
\* followed from obj, each segment indexing a mapping
RECURSIVE MissingPath(_, _)
MissingPath(obj, keys) ==
    /\ keys # <<>>
    /\ \/ obj.t # "obj"
       \/ Head(keys) \notin DOMAIN obj.v
       \/ obj.v[Head(keys)] = Undef
       \/ MissingPath(obj.v[Head(keys)], Tail(keys))

C6_NotFoundIffUnregistered ==
    last.op = "render" =>
        /\ ~last.result.ok <=> last.name \notin DOMAIN templates
        /\ ~last.result.ok =>
              /\ last.result.error = [kind |-> "Template not found", detail |-> last.name]
              /\ last.result.text = <<>>

\* the last call rendered the text of the context {{snippet}} whose first
\* marker calls the registered helper capitalize on an undefined argument
HelperRaised ==
    /\ Rendered("snippet")
    /\ <<"c", "a", "p", "i", "t", "a", "l", "i", "z", "e">> \in DOMAIN helpers
    /\ CtxValue(<<"s", "n", "i", "p", "p", "e", "t">>) = Str(<<"{", "{", "c", "a", "p", "i", "t", "a", "l", "i", "z", "e", " ", "m", "i", "s", "s", "i", "n", "g", "}", "}", "{", "{", "c", "a", "p", "i", "t", "a", "l", "i", "z", "e", " ", "\"", "a", "b", "\"", "}", "}">>)
    /\ IsThrow(ApplyHelper(helpers[<<"c", "a", "p", "i", "t", "a", "l", "i", "z", "e">>], <<CtxValue(<<"m", "i", "s", "s", "i", "n", "g">>)>>))

\* C7: when a registered helper raises during rendering, the failure is
\* caught, its marker contributes the empty string and render completes with
\* every other marker processed as if the helper had returned "".
C7_HelperFailureCaught ==
    HelperRaised =>
        /\ last.result.ok
        /\ last.result.text
              = ToStr(ApplyHelper(helpers[<<"c", "a", "p", "i", "t", "a", "l", "i", "z", "e">>], <<Str(<<"a", "b">>)>>)) \o <<"!">> \o ToStr(CtxValue(<<"x">>))

\* a render in which the helper raised for the first marker and returned
\* for the second
C7_Witness ==
    /\ HelperRaised
    /\ Len(last.result.calls) = 2
    /\ last.result.calls[1].raised
    /\ ~last.result.calls[2].raised
    /\ last.result.text = <<"A", "b", "!", "1">>

\* ------------------------------------------------------------------------
\* CodeGenerator
\* ------------------------------------------------------------------------

\* the largest number of generator configurations registered
MaxConfigs == 2

\* a generator name as a value of the program (null and undefined are Null
\* and Undef)
NameV(n) == [t |-> "name", v |-> n]

\* ToBoolean of a name, null or undefined: the empty name is falsy
TruthyName(x) == x.t = "name" /\ x.v # ""

\* `${templateName}` for a name or undefined
NameStr(x) == IF x.t = "name" THEN x.v ELSE x.t

\* `${templateName}:${key}`
TemplateKey(templateName, key) == NameStr(templateName) \o ":" \o key

\* Spread with the keys of the first object kept: { ...g, ...f }
SpreadKeepFirst(f, g) == [k \in DOMAIN f \cup DOMAIN g |-> IF k \in DOMAIN f THEN f[k] ELSE g[k]]

\* { ...f, ...g } on the key maps of two objects
Spread(f, g) == [k \in DOMAIN f \cup DOMAIN g |-> IF k \in DOMAIN g THEN g[k] ELSE f[k]]

\* options[key], undefined when absent
OptGet(options, key) == IF key \in DOMAIN options.v THEN options.v[key] ELSE Undef

\* a || b
OrElse(a, b) == IF Truthy(a) THEN a ELSE b

\* the TemplateConfig records that are registered
ConfigPool ==
    { [name |-> "A", language |-> "typescript",
       templates |-> [component |-> <<"A", " ", "{", "{", "c", "o", "m", "p", "o", "n", "e", "n", "t", "N", "a", "m", "e", "}", "}", " ", "{", "{", "j", "s", "x", "C", "o", "n", "t", "e", "n", "t", "}", "}">>,
                      page |-> <<"A", " ", "{", "{", "p", "a", "g", "e", "N", "a", "m", "e", "}", "}", "P", "a", "g", "e", " ", "{", "{", "p", "a", "g", "e", "T", "i", "t", "l", "e", "}", "}", " ", "{", "{", "j", "s", "x", "C", "o", "n", "t", "e", "n", "t", "}", "}">>,
                      styles |-> <<"A", " ", ".", "{", "{", "c", "o", "m", "p", "o", "n", "e", "n", "t", "N", "a", "m", "e", "}", "}">>,
                      index |-> <<"A", " ", ".", "/", "{", "{", "c", "o", "m", "p", "o", "n", "e", "n", "t", "N", "a", "m", "e", "}", "}">>],
       helpers |-> (<<"c", "a", "p", "i", "t", "a", "l", "i", "z", "e">> :> "capitalize")],
      [name |-> "B", language |-> "javascript",
       templates |-> [component |-> <<"B", " ", "{", "{", "c", "o", "m", "p", "o", "n", "e", "n", "t", "N", "a", "m", "e", "}", "}", " ", "{", "{", "j", "s", "x", "C", "o", "n", "t", "e", "n", "t", "}", "}">>,
                      page |-> <<"B", " ", "{", "{", "p", "a", "g", "e", "N", "a", "m", "e", "}", "}", "P", "a", "g", "e", " ", "{", "{", "j", "s", "x", "C", "o", "n", "t", "e", "n", "t", "}", "}">>,
                      styles |-> <<"B", " ", ".", "{", "{", "c", "o", "m", "p", "o", "n", "e", "n", "t", "N", "a", "m", "e", "}", "}">>,
                      index |-> <<"B", " ", ".", "/", "{", "{", "c", "o", "m", "p", "o", "n", "e", "n", "t", "N", "a", "m", "e", "}", "}">>],
       helpers |-> (<<"c", "a", "p", "i", "t", "a", "l", "i", "z", "e">> :> "kebabCase")],
      [name |-> "", language |-> "javascript",
       templates |-> [component |-> <<"N", " ", "{", "{", "c", "o", "m", "p", "o", "n", "e", "n", "t", "N", "a", "m", "e", "}", "}">>,
                      page |-> <<"N", " ", "{", "{", "p", "a", "g", "e", "N", "a", "m", "e", "}", "}", "P", "a", "g", "e">>,
                      styles |-> <<>>,
                      index |-> <<"N">>],
       helpers |-> EmptyMap],
      [name |-> "A", language |-> "javascript",
       templates |-> [component |-> <<"A", "2", " ", "{", "{", "c", "o", "m", "p", "o", "n", "e", "n", "t", "N", "a", "m", "e", "}", "}", " ", "{", "{", "h", "a", "s", "S", "t", "a", "t", "e", "}", "}", " ", "{", "{", "c", "o", "m", "p", "o", "n", "e", "n", "t", "D", "e", "s", "c", "r", "i", "p", "t", "i", "o", "n", "}", "}">>,
                      page |-> <<"A", "2", " ", "{", "{", "p", "a", "g", "e", "N", "a", "m", "e", "}", "}", "P", "a", "g", "e">>,
                      styles |-> <<"A", "2", " ", "{", "{", "h", "a", "s", "S", "t", "a", "t", "e", "}", "}">>,
                      index |-> <<"A", "2">>],
       helpers |-> EmptyMap] }

ConfigNames == {c.name : c \in ConfigPool}

ArtifactKinds == <<"component", "page", "styles", "index">>

\* Object.entries(config.templates).forEach(... registerTemplate(`${config.name}:${key}`, template))
RECURSIVE RegisterAll(_, _, _)
RegisterAll(ts, config, k) ==
    IF k > Len(ArtifactKinds) THEN ts
    ELSE RegisterAll(MapSet(ts, TemplateKey(NameV(config.name), ArtifactKinds[k]),
                            config.templates[ArtifactKinds[k]]),
                     config, k + 1)

\* CodeGenerator.registerTemplate(config)
registerTemplate(config) ==
    /\ config.name \in DOMAIN genTemplates \/ Len(genOrder) < MaxConfigs
    /\ templates' = RegisterAll(templates, config, 1)
    /\ helpers' = Spread(helpers, config.helpers)
    /\ genTemplates' = MapSet(genTemplates, config.name, config)
    /\ genOrder' = IF config.name \in DOMAIN genTemplates THEN genOrder ELSE Append(genOrder, config.name)
    /\ firstRegistered' = IF firstRegistered = Null THEN NameV(config.name) ELSE firstRegistered
    /\ last' = [op |-> "registerTemplate", name |-> config.name, ctx |-> 0, result |-> NoResult]
    /\ UNCHANGED <<activeTemplate, importVars, storeVars, schedulerVars>>

\* CodeGenerator.setActiveTemplate(name)
setActiveTemplate(name) ==
    /\ IF name \notin DOMAIN genTemplates
       THEN /\ last' = [op |-> "setActiveTemplate", name |-> name, ctx |-> 0,
                        result |-> [ok |-> FALSE, before |-> activeTemplate,
                                    error |-> [kind |-> "Template not found", detail |-> name]]]
            /\ UNCHANGED activeTemplate
       ELSE /\ activeTemplate' = NameV(name)
            /\ last' = [op |-> "setActiveTemplate", name |-> name, ctx |-> 0,
                        result |-> [ok |-> TRUE, before |-> activeTemplate, error |-> NoError]]
    /\ UNCHANGED <<engineVars, genTemplates, genOrder, firstRegistered, importVars, storeVars, schedulerVars>>

\* CodeGenerator.getDefaultTemplateName: Array.from(this.templates.keys())[0]
getDefaultTemplateName == IF genOrder = <<>> THEN Undef ELSE NameV(genOrder[1])

\* this.activeTemplate || this.getDefaultTemplateName()
ActiveOrDefault == IF TruthyName(activeTemplate) THEN activeTemplate ELSE getDefaultTemplateName

\* this.templates.get(templateName)
GetConfig(templateName) ==
    IF templateName.t = "name" /\ templateName.v \in DOMAIN genTemplates
    THEN genTemplates[templateName.v]
    ELSE Undef

\* the component schemas that code is generated for
SchemaPool ==
    << [id |-> <<"1">>, type |-> <<"d", "i", "v">>, content |-> Undef,
        children |-> << [id |-> <<"2">>, type |-> <<"s", "p", "a", "n">>, content |-> Str(<<"H", "i">>), children |-> <<>>] >>],
       [id |-> <<"3">>, type |-> <<"p">>, content |-> Str(<<"t">>), children |-> <<>>],
       [id |-> <<"4">>, type |-> <<"b">>, content |-> Str(<<"{", "{", "c", "a", "p", "i", "t", "a", "l", "i", "z", "e", " ", "\"", "a", "b", "\"", "}", "}">>), children |-> <<>>] >>

\* the structural content fragment of a schema node: the tag around the
\* rendered children, or around the literal content of a node without children
RECURSIVE generateJSXContent(_)
generateJSXContent(component) ==
    <<"<">> \o component.type \o <<">">>
    \o (IF component.children # <<>>
        THEN JoinAll([k \in 1..Len(component.children) |-> generateJSXContent(component.children[k])])
        ELSE IF component.content = Undef THEN <<>> ELSE ToStr(component.content))
    \o <<"<", "/">> \o component.type \o <<">">>

\* the descriptors extracted from a schema of the pool: it declares no state,
\* effects, props, imports, functions or styles
NoDescriptors == Arr(9, <<>>)

\* CodeGenerator.analyzeComponent
analyzeComponent(component) ==
    (<<"h", "a", "s", "S", "t", "a", "t", "e">> :> Bool(Len(NoDescriptors.v) > 0))
    @@ (<<"h", "a", "s", "E", "f", "f", "e", "c", "t">> :> Bool(Len(NoDescriptors.v) > 0))
    @@ (<<"h", "a", "s", "P", "r", "o", "p", "s">> :> Bool(Len(NoDescriptors.v) > 0))
    @@ (<<"s", "t", "a", "t", "e">> :> NoDescriptors)
    @@ (<<"e", "f", "f", "e", "c", "t", "s">> :> NoDescriptors)
    @@ (<<"p", "r", "o", "p", "s">> :> NoDescriptors)
    @@ (<<"j", "s", "x", "C", "o", "n", "t", "e", "n", "t">> :> Str(generateJSXContent(component)))
    @@ (<<"i", "m", "p", "o", "r", "t", "s">> :> NoDescriptors)
    @@ (<<"f", "u", "n", "c", "t", "i", "o", "n", "s">> :> NoDescriptors)
    @@ (<<"s", "t", "y", "l", "e", "s">> :> NoDescriptors)

\* CodeGenerator.generateComponentName: the name generated for a component
\* when the options give none
generateComponentName(component) == Str(<<"C", "o", "m", "p", "o", "n", "e", "n", "t">> \o component.id)

\* the options of generateComponent
ComponentOptionsPool ==
    << Obj(5, EmptyMap),
       Obj(5, (<<"c", "o", "m", "p", "o", "n", "e", "n", "t", "N", "a", "m", "e">> :> Str(<<"C", "a", "r", "d">>)) @@ (<<"i", "s", "M", "o", "d", "u", "l", "e">> :> Bool(TRUE))),
       Obj(5, (<<"c", "o", "m", "p", "o", "n", "e", "n", "t", "N", "a", "m", "e">> :> Str(<<>>)) @@ (<<"d", "e", "s", "c", "r", "i", "p", "t", "i", "o", "n">> :> Str(<<"d">>))),
       Obj(5, (<<"h", "a", "s", "S", "t", "a", "t", "e">> :> Bool(TRUE))) >>

\* the options of generatePage
PageOptionsPool ==
    << Obj(5, EmptyMap),
       Obj(5, (<<"p", "a", "g", "e", "N", "a", "m", "e">> :> Str(<<"H", "o", "m", "e">>))) >>

\* a generation call that threw the error of the failed render r
GenFail(templateName, r) == [ok |-> FALSE, templateName |-> templateName, error |-> r.error]

\* the context generateComponent renders with:
\*   { ...componentAnalysis, ...options, componentName, componentDescription }
ComponentContext(component, options) ==
    Obj(6, Spread(Spread(analyzeComponent(component), options.v),
                  (<<"c", "o", "m", "p", "o", "n", "e", "n", "t", "N", "a", "m", "e">> :> OrElse(OptGet(options, <<"c", "o", "m", "p", "o", "n", "e", "n", "t", "N", "a", "m", "e">>), generateComponentName(component)))
                  @@ (<<"c", "o", "m", "p", "o", "n", "e", "n", "t", "D", "e", "s", "c", "r", "i", "p", "t", "i", "o", "n">> :> OrElse(OptGet(options, <<"d", "e", "s", "c", "r", "i", "p", "t", "i", "o", "n">>),
                                   Str(component.type \o <<" ", "c", "o", "m", "p", "o", "n", "e", "n", "t">>)))))

\* SourceExtension for a generator that ignores the language of the
\* configuration
SourceExtensionTyped(templateConfig) == <<"t", "s", "x">>

\* templateConfig.language === 'typescript' ? 'tsx' : 'jsx'
SourceExtension(templateConfig) ==
    IF templateConfig.language = "typescript" THEN <<"t", "s", "x">> ELSE <<"j", "s", "x">>

\* templateConfig.language === 'typescript' ? 'ts' : 'js'
IndexExtension(templateConfig) ==
    IF templateConfig.language = "typescript" THEN <<"t", "s">> ELSE <<"j", "s">>

\* options.isModule ? `${componentName}.module.css` : `${componentName}.css`
StyleFilename(componentName, options) ==
    componentName \o (IF Truthy(OptGet(options, <<"i", "s", "M", "o", "d", "u", "l", "e">>)) THEN <<".", "m", "o", "d", "u", "l", "e", ".", "c", "s", "s">> ELSE <<".", "c", "s", "s">>)

\* the GeneratedCode record assembled from the three rendered texts, or the
\* error of the first render that failed
ComponentCode(templateName, templateConfig, componentName, options, mainCode, styleCode, indexCode) ==
    IF ~mainCode.ok THEN GenFail(templateName, mainCode)
    ELSE IF ~styleCode.ok THEN GenFail(templateName, styleCode)
    ELSE IF ~indexCode.ok THEN GenFail(templateName, indexCode)
    ELSE IF templateConfig = Undef THEN GenFail(templateName, Fail("TypeError", ""))
    ELSE [ok |-> TRUE, templateName |-> templateName, error |-> NoError,
          code |-> [main |-> [content |-> mainCode.text,
                              filename |-> componentName \o <<".">> \o SourceExtension(templateConfig)],
                    styles |-> [content |-> styleCode.text,
                                filename |-> StyleFilename(componentName, options)],
                    index |-> [content |-> indexCode.text,
                               filename |-> <<"i", "n", "d", "e", "x", ".">> \o IndexExtension(templateConfig)]]]

\* the value generateComponent returns or the error it throws
GenerateComponentResult(component, options) ==
    ComponentCode(ActiveOrDefault, GetConfig(ActiveOrDefault),
                  ToStr(ComponentContext(component, options).v[<<"c", "o", "m", "p", "o", "n", "e", "n", "t", "N", "a", "m", "e">>]), options,
                  render(templates, helpers, TemplateKey(ActiveOrDefault, "component"),
                         ComponentContext(component, options)),
                  render(templates, helpers, TemplateKey(ActiveOrDefault, "styles"),
                         ComponentContext(component, options)),
                  render(templates, helpers, TemplateKey(ActiveOrDefault, "index"),
                         ComponentContext(component, options)))

\* CodeGenerator.generateComponent(SchemaPool[s], ComponentOptionsPool[o])
generateComponent(s, o) ==
    /\ last' = [op |-> "generateComponent", name |-> "", ctx |-> s, opt |-> o,
                result |-> GenerateComponentResult(SchemaPool[s], ComponentOptionsPool[o])]
    /\ UNCHANGED <<engineVars, generatorVars, importVars, storeVars, schedulerVars>>

\* CodeGenerator.analyzePage: the fragments of the components, one after
\* the other
analyzePage(components) ==
    (<<"j", "s", "x", "C", "o", "n", "t", "e", "n", "t">> :> Str(JoinAll([k \in 1..Len(components) |-> generateJSXContent(components[k])])))
    @@ (<<"i", "m", "p", "o", "r", "t", "s">> :> NoDescriptors)

\* the context generatePage renders with:
\*   { ...pageAnalysis, ...options, pageName, pageTitle, pageDescription }
PageContext(components, options) ==
    Obj(6, Spread(Spread(analyzePage(components), options.v),
                  (<<"p", "a", "g", "e", "N", "a", "m", "e">> :> OrElse(OptGet(options, <<"p", "a", "g", "e", "N", "a", "m", "e">>), Str(<<"D", "e", "f", "a", "u", "l", "t">>)))
                  @@ (<<"p", "a", "g", "e", "T", "i", "t", "l", "e">> :> OrElse(OptGet(options, <<"p", "a", "g", "e", "T", "i", "t", "l", "e">>),
                                   OrElse(OptGet(options, <<"p", "a", "g", "e", "N", "a", "m", "e">>), Str(<<"D", "e", "f", "a", "u", "l", "t", " ", "P", "a", "g", "e">>))))
                  @@ (<<"p", "a", "g", "e", "D", "e", "s", "c", "r", "i", "p", "t", "i", "o", "n">> :> OrElse(OptGet(options, <<"d", "e", "s", "c", "r", "i", "p", "t", "i", "o", "n">>), Str(<<"G", "e", "n", "e", "r", "a", "t", "e", "d", " ", "p", "a", "g", "e">>)))))

\* the GeneratedCode record of a page, or the error of the failed render
PageCode(templateName, pageName, pageCode) ==
    IF ~pageCode.ok THEN GenFail(templateName, pageCode)
    ELSE [ok |-> TRUE, templateName |-> templateName, error |-> NoError,
          code |-> [main |-> [content |-> pageCode.text,
                              filename |-> pageName \o <<"P", "a", "g", "e", ".", "t", "s", "x">>]]]

\* the value generatePage returns or the error it throws
GeneratePageResult(components, options) ==
    PageCode(ActiveOrDefault,
             ToStr(PageContext(components, options).v[<<"p", "a", "g", "e", "N", "a", "m", "e">>]),
             render(templates, helpers, TemplateKey(ActiveOrDefault, "page"),
                    PageContext(components, options)))

\* CodeGenerator.generatePage(SchemaPool, PageOptionsPool[o])
generatePage(o) ==
    /\ last' = [op |-> "generatePage", name |-> "", ctx |-> 0, opt |-> o,
                result |-> GeneratePageResult(SchemaPool, PageOptionsPool[o])]
    /\ UNCHANGED <<engineVars, generatorVars, importVars, storeVars, schedulerVars>>

\* ------------------------------------------------------------------------
\* CodeGeneratorFactory and CodeGenerationService
\* ------------------------------------------------------------------------

\* the framework keys that generators are asked for
FrameworkKeys == {"react", "vue", "angular", "html", "svelte"}

\* the switch of CodeGeneratorFactory.getGenerator and of
\* CodeGenerationService.generateCode: the generator selected for a key
SelectGenerator(framework) ==
    CASE framework = "react" -> "react"
      [] framework = "vue" -> "vue"
      [] framework = "angular" -> "angular"
      [] framework = "html" -> "html"
      [] OTHER -> "react"

\* CodeGeneratorFactory.getGenerator(framework)
getGenerator(framework) ==
    /\ last' = [op |-> "getGenerator", name |-> framework, ctx |-> 0,
                result |-> [ok |-> TRUE, generator |-> SelectGenerator(framework), error |-> NoError]]
    /\ UNCHANGED <<engineVars, generatorVars, importVars, storeVars, schedulerVars>>

\* CodeGenerationService.generateCode(componentTree, options) with
\* options.framework = framework
generateCode(framework) ==
    /\ last' = [op |-> "generateCode", name |-> framework, ctx |-> 0,
                result |-> [ok |-> TRUE, generator |-> SelectGenerator(framework), error |-> NoError]]
    /\ UNCHANGED <<engineVars, generatorVars, importVars, storeVars, schedulerVars>>

InitGenerator == InitEngine

NextGenerator ==
    \/ \E config \in ConfigPool : registerTemplate(config)
    \/ \E name \in ConfigNames \cup {"C"} : setActiveTemplate(name)
    \/ \E s \in 1..Len(SchemaPool), o \in 1..Len(ComponentOptionsPool) : generateComponent(s, o)
    \/ \E o \in 1..Len(PageOptionsPool) : generatePage(o)
    \/ \E framework \in FrameworkKeys : getGenerator(framework)
    \/ \E framework \in FrameworkKeys : generateCode(framework)

SpecGenerator == InitGenerator /\ [][NextGenerator]_vars

\* ------------------------------------------------------------------------
\* Properties of CodeGenerator and CodeGeneratorFactory (SpecGenerator)
\* ------------------------------------------------------------------------

\* the last call was a generateComponent or a generatePage
Generated == last.op \in {"generateComponent", "generatePage"}

\* C8: with no generator configuration registered, generateComponent and
\* generatePage fail with a NoGeneratorRegisteredError that identifies the
\* missing generator, not with a template-lookup error for a key built from
\* an undefined name, and return no GeneratedCode.
C8_NoGeneratorRegisteredError ==
    (Generated /\ genOrder = <<>>) =>
        /\ ~last.result.ok
        /\ last.result.error.kind = "NoGeneratorRegisteredError"

\* C9: generateComponent and generatePage use the generator configuration
\* registered first while no setActiveTemplate call has succeeded, and the
\* configuration n of the last successful setActiveTemplate(n) afterwards.
C9_FirstRegisteredThenActive ==
    (Generated /\ firstRegistered # Null) =>
        last.result.templateName = IF activeTemplate = Null THEN firstRegistered ELSE activeTemplate

\* the framework keys for which a generator exists
KnownFrameworks == {"react", "vue", "angular", "html"}

\* C10: selecting a generator by an unregistered or unrecognised key fails
\* and never falls back to a default: setActiveTemplate(unregistered) raises
\* and leaves the active generator unchanged, and getGenerator and
\* generateCode fail for an unknown framework key.
C10_UnknownKeyFails ==
    /\ (last.op = "setActiveTemplate" /\ last.name \notin DOMAIN genTemplates) =>
          /\ ~last.result.ok
          /\ activeTemplate = last.result.before
    /\ (last.op \in {"getGenerator", "generateCode"} /\ last.name \notin KnownFrameworks) =>
          ~last.result.ok

\* the last call was a generateComponent that returned its GeneratedCode
ComponentGenerated == last.op = "generateComponent" /\ last.result.ok

\* C11: a successful generateComponent returns exactly the artifacts main,
\* styles and index; main is <componentName>.tsx for a typescript generator
\* and <componentName>.jsx otherwise, index is index.ts or index.js likewise,
\* styles is <componentName>.module.css when options.isModule is set and
\* <componentName>.css otherwise, and componentName is options.componentName
\* when one (a non-empty name) is given.
C11_ComponentArtifacts ==
    ComponentGenerated =>
        LET options == ComponentOptionsPool[last.opt]
            typed == GetConfig(last.result.templateName).language = "typescript"
            given == OptGet(options, <<"c", "o", "m", "p", "o", "n", "e", "n", "t", "N", "a", "m", "e">>)
            main == last.result.code.main.filename
        IN  /\ DOMAIN last.result.code = {"main", "styles", "index"}
            /\ \E k \in 0..Len(main) :
                  LET componentName == SubSeq(main, 1, k)
                  IN  /\ Truthy(given) => componentName = given.v
                      /\ main = componentName \o (IF typed THEN <<".", "t", "s", "x">> ELSE <<".", "j", "s", "x">>)
                      /\ last.result.code.styles.filename
                           = componentName \o (IF Truthy(OptGet(options, <<"i", "s", "M", "o", "d", "u", "l", "e">>))
                                               THEN <<".", "m", "o", "d", "u", "l", "e", ".", "c", "s", "s">> ELSE <<".", "c", "s", "s">>)
            /\ last.result.code.index.filename = (IF typed THEN <<"i", "n", "d", "e", "x", ".", "t", "s">> ELSE <<"i", "n", "d", "e", "x", ".", "j", "s">>)

\* a javascript generator produced Card.jsx, Card.module.css and index.js
C11_Witness ==
    /\ ComponentGenerated
    /\ last.opt = 2
    /\ GetConfig(last.result.templateName).language = "javascript"
    /\ last.result.code.main.filename = <<"C", "a", "r", "d", ".", "j", "s", "x">>
    /\ last.result.code.styles.filename = <<"C", "a", "r", "d", ".", "m", "o", "d", "u", "l", "e", ".", "c", "s", "s">>
    /\ last.result.code.index.filename = <<"i", "n", "d", "e", "x", ".", "j", "s">>

\* C12: generatePage follows the contract of generateComponent: the
\* generator is the active one, else the first registered, and the main
\* artifact is <pageName>Page.tsx for a typescript generator and
\* <pageName>Page.jsx for a javascript one.
C12_PageFollowsComponentContract ==
    (last.op = "generatePage" /\ last.result.ok) =>
        /\ last.result.templateName = ActiveOrDefault
        /\ last.result.code.main.filename
             = ToStr(PageContext(SchemaPool, PageOptionsPool[last.opt]).v[<<"p", "a", "g", "e", "N", "a", "m", "e">>])
               \o (IF GetConfig(last.result.templateName).language = "typescript"
                   THEN <<"P", "a", "g", "e", ".", "t", "s", "x">> ELSE <<"P", "a", "g", "e", ".", "j", "s", "x">>)

\* the positions in s, from left to right, of the opening of a div, the
\* opening of a span, the text Hi, the closing of the span and the closing of
\* the div; 0 as soon as one of them is missing
NestedHiEnd(s) ==
    LET p1 == FindLit(s, 1, <<"<", "d", "i", "v">>)
        p2 == IF p1 = 0 THEN 0 ELSE FindLit(s, p1 + 4, <<"<", "s", "p", "a", "n">>)
        p3 == IF p2 = 0 THEN 0 ELSE FindLit(s, p2 + 5, <<"H", "i">>)
        p4 == IF p3 = 0 THEN 0 ELSE FindLit(s, p3 + 2, <<"<", "/", "s", "p", "a", "n", ">">>)
    IN  IF p4 = 0 THEN 0 ELSE FindLit(s, p4 + 7, <<"<", "/", "d", "i", "v", ">">>)

\* C17: the component artifact generated for the schema
\* {id:"1", type:"div", children:[{id:"2", type:"span", content:"Hi"}]} with
\* a component template that places the structural content contains a div
\* around a span around "Hi", and no {{...}} marker remains in it.
C17_EndToEnd ==
    (/\ ComponentGenerated
     /\ last.ctx = 1
     /\ Includes(templates[TemplateKey(last.result.templateName, "component")], <<"{", "{", "j", "s", "x", "C", "o", "n", "t", "e", "n", "t", "}", "}">>)) =>
        /\ NestedHiEnd(last.result.code.main.content) # 0
        /\ ~Includes(last.result.code.main.content, <<"{", "{">>)

\* the typescript generator A produced the component text of the schema
C17_Witness ==
    /\ ComponentGenerated
    /\ last.ctx = 1
    /\ last.opt = 1
    /\ last.result.code.main.content = <<"A", " ", "C", "o", "m", "p", "o", "n", "e", "n", "t", "1", " ", "<", "d", "i", "v", ">", "<", "s", "p", "a", "n", ">", "H", "i", "<", "/", "s", "p", "a", "n", ">", "<", "/", "d", "i", "v", ">">>

\* C18: templates and helpers are keyed by the generator that registered
\* them: generation under a generator uses that generator's own helpers,
\* whatever helpers other generators registered under the same names, so the
\* component text equals the text rendered with the helpers of its own
\* configuration.
C18_HelpersKeyedByGenerator ==
    ComponentGenerated =>
        last.result.code.main.content
          = render(templates, GetConfig(last.result.templateName).helpers,
                   TemplateKey(last.result.templateName, "component"),
                   ComponentContext(SchemaPool[last.ctx], ComponentOptionsPool[last.opt])).text

\* ------------------------------------------------------------------------
\* DynamicImportManager
\* ------------------------------------------------------------------------

\* the largest number of components registered on the manager
MaxImports == 2

\* the component names that are registered and used; W is never registered
ImportNames == {<<"X">>, <<"Y">>, <<"Z">>}

UnregisteredName == <<"W">>

\* the path a component of the pool is registered with
PathOf(name) == <<".", "/">> \o name

\* weights are counted in hundredths: 0.8 is 80 and 1 is 100
WeightPool == {50, 80, 81, 90}

\* registerComponent(name, path, weight = 1)
DefaultWeight == 100

\* the 0.8 of component.weight > 0.8 and of c.weight <= 0.8
EagerThreshold == 80

\* the lists of used components that imports are generated for
UsedPool ==
    {<<>>} \cup {<<n>> : n \in ImportNames \cup {UnregisteredName}}
           \cup {<<n, m>> : n \in ImportNames, m \in ImportNames \cup {UnregisteredName}}
           \cup { <<<<"X">>, <<"Y">>, <<"Z">>>>, <<<<"Z">>, <<"Y">>, <<"X">>>>, <<<<"Y">>, <<"X">>, <<"Y">>>> }

\* DynamicImportManager.registerComponent(name, path, weight)
registerComponent(name, path, weight) ==
    /\ name \in DOMAIN importMap \/ Cardinality(DOMAIN importMap) < MaxImports
    /\ importMap' = MapSet(importMap, name, [path |-> path, weight |-> weight])
    /\ last' = [op |-> "registerComponent", name |-> "", ctx |-> 0, result |-> NoResult]
    /\ UNCHANGED <<engineVars, generatorVars, storeVars, schedulerVars>>

\* usedComponents.filter(name => this.importMap.has(name))
\*               .map(name => ({ name, ...this.importMap.get(name) }))
UsedRegistered(im, usedComponents) ==
    LET names == SelectSeq(usedComponents, LAMBDA n : n \in DOMAIN im)
    IN  [k \in 1..Len(names) |->
            [name |-> names[k], path |-> im[names[k]].path, weight |-> im[names[k]].weight]]

\* one insertion of the stable sort with (a, b) => b.weight - a.weight: c goes
\* behind every component of sorted whose weight is not smaller
InsertByWeight(sorted, c) ==
    LET k == Cardinality({i \in 1..Len(sorted) : sorted[i].weight >= c.weight})
    IN  SubSeq(sorted, 1, k) \o <<c>> \o SubSeq(sorted, k + 1, Len(sorted))

\* [...components].sort((a, b) => b.weight - a.weight)
RECURSIVE SortByWeight(_)
SortByWeight(components) ==
    IF components = <<>> THEN <<>>
    ELSE InsertByWeight(SortByWeight(SubSeq(components, 1, Len(components) - 1)),
                        components[Len(components)])

\* IsEagerWeight with the comparison weight >= 0.8
IsEagerWeightInclusive(weight) == weight >= EagerThreshold

\* component.weight > 0.8
IsEagerWeight(weight) == weight > EagerThreshold

\* the statement emitted for one component
ImportStatement(component) ==
    IF IsEagerWeight(component.weight)
    THEN <<"i", "m", "p", "o", "r", "t", " ">> \o component.name \o <<" ", "f", "r", "o", "m", " ", "'">> \o component.path \o <<"'", ";">>
    ELSE <<"c", "o", "n", "s", "t", " ">> \o component.name \o <<" ", "=", " ", "R", "e", "a", "c", "t", ".", "l", "a", "z", "y", "(", "(", ")", " ", "=", ">", " ", "i", "m", "p", "o", "r", "t", "(", "'">> \o component.path \o <<"'", ")", ")", ";">>

\* HasLazy with the comparison weight < 0.8
HasLazyStrict(sortedComponents) ==
    \E k \in 1..Len(sortedComponents) : sortedComponents[k].weight < EagerThreshold

\* sortedComponents.some(c => c.weight <= 0.8)
HasLazy(sortedComponents) ==
    \E k \in 1..Len(sortedComponents) : sortedComponents[k].weight <= EagerThreshold

\* hasLazy ? `import React, { lazy, Suspense } from 'react';` : `import React from 'react';`
ReactImport(sortedComponents) ==
    IF HasLazy(sortedComponents)
    THEN <<"i", "m", "p", "o", "r", "t", " ", "R", "e", "a", "c", "t", ",", " ", "{", " ", "l", "a", "z", "y", ",", " ", "S", "u", "s", "p", "e", "n", "s", "e", " ", "}", " ", "f", "r", "o", "m", " ", "'", "r", "e", "a", "c", "t", "'", ";">>
    ELSE <<"i", "m", "p", "o", "r", "t", " ", "R", "e", "a", "c", "t", " ", "f", "r", "o", "m", " ", "'", "r", "e", "a", "c", "t", "'", ";">>

\* lines.join('\n')
RECURSIVE JoinLines(_)
JoinLines(lines) ==
    IF lines = <<>> THEN <<>>
    ELSE IF Len(lines) = 1 THEN lines[1]
    ELSE lines[1] \o <<"\n">> \o JoinLines(Tail(lines))

\* the text assembled from the sorted components:
\*   [reactImport, ...imports].join('\n')
ImportBlock(sortedComponents) ==
    JoinLines(<<ReactImport(sortedComponents)>>
              \o [k \in 1..Len(sortedComponents) |-> ImportStatement(sortedComponents[k])])

\* DynamicImportManager.generateOptimizedImports(usedComponents)
generateOptimizedImports(usedComponents) ==
    /\ last' = [op |-> "generateOptimizedImports", name |-> "", ctx |-> 0,
                used |-> usedComponents,
                result |-> ImportBlock(SortByWeight(UsedRegistered(importMap, usedComponents)))]
    /\ UNCHANGED <<engineVars, generatorVars, importVars, storeVars, schedulerVars>>

InitImports == InitEngine

NextImports ==
    \/ \E name \in ImportNames, weight \in WeightPool : registerComponent(name, PathOf(name), weight)
    \/ \E name \in ImportNames : registerComponent(name, PathOf(name), DefaultWeight)
    \/ \E usedComponents \in UsedPool : generateOptimizedImports(usedComponents)

SpecImports == InitImports /\ [][NextImports]_vars

\* ------------------------------------------------------------------------
\* Properties of DynamicImportManager (SpecImports)
\* ------------------------------------------------------------------------

\* the last call was a generateOptimizedImports
ImportsGenerated == last.op = "generateOptimizedImports"

\* the lines of the emitted block
EmittedLines == SplitLit(last.result, <<"\n">>)

\* the line is an eager import statement
IsEagerLine(line) == StartsWithAt(line, 1, <<"i", "m", "p", "o", "r", "t", " ">>)

\* the line is a deferred-loading wrapper
IsLazyLine(line) == StartsWithAt(line, 1, <<"c", "o", "n", "s", "t", " ">>) /\ Includes(line, <<" ", "=", " ", "R", "e", "a", "c", "t", ".", "l", "a", "z", "y", "(", "(", ")", " ", "=", ">", " ", "i", "m", "p", "o", "r", "t", "(">>)

\* the component a statement line declares: the word after import or const
StatementName(line) ==
    LET from == IF IsEagerLine(line) THEN 8 ELSE 7
    IN  SubSeq(line, from, FindLit(line, from, <<" ">>) - 1)

\* the number of elements of the sequence s equal to x
CountOf(s, x) == Cardinality({k \in 1..Len(s) : s[k] = x})

\* C13: generateOptimizedImports emits one statement for every used
\* registered component: an eager import if and only if its weight is
\* strictly greater than 0.8 and a lazy wrapper otherwise (0.8 is lazy); the
\* statements are in order of non-increasing weight, so every eager statement
\* precedes every lazy one.
C13_ImportPartition ==
    ImportsGenerated =>
        LET statements == Tail(EmittedLines)
            names == [k \in 1..Len(statements) |-> StatementName(statements[k])]
        IN  /\ \A n \in ImportNames \cup {UnregisteredName} :
                  CountOf(names, n) = IF n \in DOMAIN importMap THEN CountOf(last.used, n) ELSE 0
            /\ Len(statements) = Cardinality({k \in 1..Len(last.used) : last.used[k] \in DOMAIN importMap})
            /\ \A k \in 1..Len(statements) :
                  /\ IsEagerLine(statements[k]) <=> importMap[names[k]].weight > 80
                  /\ IsLazyLine(statements[k]) <=> importMap[names[k]].weight <= 80
                  /\ Includes(statements[k], <<"'">> \o importMap[names[k]].path \o <<"'">>)
            /\ \A i, j \in 1..Len(statements) :
                  i < j => importMap[names[i]].weight >= importMap[names[j]].weight
            /\ \A i, j \in 1..Len(statements) :
                  (IsEagerLine(statements[i]) /\ IsLazyLine(statements[j])) => i < j

\* weights {X: 0.9, Y: 0.5} used as [Y, X]: the eager import of X precedes
\* the lazy wrapper of Y
C13_Witness ==
    /\ ImportsGenerated
    /\ last.used = <<<<"Y">>, <<"X">>>>
    /\ DOMAIN importMap = {<<"X">>, <<"Y">>}
    /\ importMap[<<"X">>].weight = 90
    /\ importMap[<<"Y">>].weight = 50
    /\ EmittedLines = << <<"i", "m", "p", "o", "r", "t", " ", "R", "e", "a", "c", "t", ",", " ", "{", " ", "l", "a", "z", "y", ",", " ", "S", "u", "s", "p", "e", "n", "s", "e", " ", "}", " ", "f", "r", "o", "m", " ", "'", "r", "e", "a", "c", "t", "'", ";">>,
                         <<"i", "m", "p", "o", "r", "t", " ", "X", " ", "f", "r", "o", "m", " ", "'", ".", "/", "X", "'", ";">>,
                         <<"c", "o", "n", "s", "t", " ", "Y", " ", "=", " ", "R", "e", "a", "c", "t", ".", "l", "a", "z", "y", "(", "(", ")", " ", "=", ">", " ", "i", "m", "p", "o", "r", "t", "(", "'", ".", "/", "Y", "'", ")", ")", ";">> >>

\* the line imports the deferred-loading primitives
ImportsLazyPrimitives(line) ==
    /\ IsEagerLine(line)
    /\ Includes(line, <<"l", "a", "z", "y">>)
    /\ Includes(line, <<"S", "u", "s", "p", "e", "n", "s", "e">>)

\* C14: the import of the deferred-loading primitives (lazy, Suspense) is the
\* first line of the emitted block and appears exactly once when at least one
\* emitted component is lazy, and does not appear when none is: the first
\* line is then the plain React import.
C14_LazyPrimitivesOnce ==
    ImportsGenerated =>
        LET primitives == {k \in 1..Len(EmittedLines) : ImportsLazyPrimitives(EmittedLines[k])}
        IN  IF \E k \in 2..Len(EmittedLines) : IsLazyLine(EmittedLines[k])
            THEN primitives = {1}
            ELSE /\ primitives = {}
                 /\ EmittedLines[1] = <<"i", "m", "p", "o", "r", "t", " ", "R", "e", "a", "c", "t", " ", "f", "r", "o", "m", " ", "'", "r", "e", "a", "c", "t", "'", ";">>

\* two lazy components, one of weight exactly 0.8: one import of the primitives
C14_Witness ==
    /\ ImportsGenerated
    /\ last.used = <<<<"X">>, <<"Y">>>>
    /\ DOMAIN importMap = {<<"X">>, <<"Y">>}
    /\ importMap[<<"X">>].weight = 50
    /\ importMap[<<"Y">>].weight = 80
    /\ Len(EmittedLines) = 3
    /\ ImportsLazyPrimitives(EmittedLines[1])
    /\ IsLazyLine(EmittedLines[2]) /\ IsLazyLine(EmittedLines[3])

\* ------------------------------------------------------------------------
\* CodeOptimizer
\* ------------------------------------------------------------------------

\* Generated code is a list of import statements (named bindings and
\* module), a list of shared declarations (name and fragment) and a body, a
\* list of fragments; a fragment is a list of tokens.  Styles are a list of
\* rules, each a selector and a list of declarations.

\* the sequences over S of length up to n
SeqsUpTo(S, n) == UNION {[1..k -> S] : k \in 0..n}

\* the elements of a sequence
Range(s) == {s[k] : k \in 1..Len(s)}

\* the largest number of import statements, body fragments and style rules of
\* the code that is optimized
MaxImportStatements == 2

MaxBody == 3

MaxRules == 3

\* the smallest size of a fragment that is factored out when repeated
MinPatternSize == 2

\* the names of the shared declarations, in the order they are created
SharedNames == <<"$1", "$2", "$3", "$4", "$5", "$6", "$7", "$8", "$9">>

StatementPool ==
    { [names |-> <<"A", "B">>, module |-> "m"],
      [names |-> <<"A">>, module |-> "n"],
      [names |-> <<"B", "C">>, module |-> "n"],
      [names |-> <<"C">>, module |-> "m"],
      [names |-> <<>>, module |-> "s.css"] }

FragmentPool == { <<"A">>, <<"A", "x", "B">>, <<"x", "y">> }

CodePool ==
    { [imports |-> i, declarations |-> <<>>, body |-> b] :
        i \in SeqsUpTo(StatementPool, MaxImportStatements), b \in SeqsUpTo(FragmentPool, MaxBody) }

RulePool ==
    { [selector |-> s, declarations |-> d] :
        s \in {".a", ".b"}, d \in {<<>>, <<"p:1">>, <<"p:1", "q:2">>, <<"q:2", "q:2">>} }

StylesPool == SeqsUpTo(RulePool, MaxRules)

\* the styles that whole artifacts are optimized with
ArtifactStylesPool ==
    { <<>>,
      << [selector |-> ".a", declarations |-> <<"p:1">>], [selector |-> ".a", declarations |-> <<"q:2">>] >>,
      << [selector |-> ".b", declarations |-> <<>>] >> }

\* CodeOptimizer.analyzeImports: the names the code references, in the body
\* and in the shared declarations
analyzeImports(code) ==
    UNION ({Range(code.body[k]) : k \in 1..Len(code.body)}
           \cup {Range(code.declarations[k].fragment) : k \in 1..Len(code.declarations)})

\* the statement with the bindings that are not in imports removed
KeepBindings(statement, imports) ==
    [statement EXCEPT !.names = SelectSeq(@, LAMBDA n : n \in imports)]

\* CodeOptimizer.removeUnusedImports: every statement keeps its referenced
\* bindings; a statement whose named bindings are all unreferenced is removed
removeUnusedImports(code, imports) ==
    [code EXCEPT !.imports =
        SelectSeq([k \in 1..Len(@) |-> KeepBindings(@[k], imports)],
                  LAMBDA st : st.names # <<>> \/ st \in Range(code.imports))]

\* optimizeImports with the result of the analysis dropped
optimizeImportsUnanalyzed(code) == removeUnusedImports(code, {})

\* CodeOptimizer.optimizeImports
optimizeImports(code) == removeUnusedImports(code, analyzeImports(code))

\* CodeOptimizer.findRepeatingPatterns: the fragments of the size threshold
\* or more that the body repeats
findRepeatingPatterns(code) ==
    {f \in Range(code.body) :
        Len(f) >= MinPatternSize /\ Cardinality({k \in 1..Len(code.body) : code.body[k] = f}) >= 2}

\* the fragments of patterns in the order of their first occurrence in body
InOrder(body, patterns) ==
    LET first == {k \in 1..Len(body) : body[k] \in patterns /\ \A j \in 1..(k - 1) : body[j] # body[k]}
    IN  SelectSeq([k \in 1..Len(body) |-> IF k \in first THEN body[k] ELSE <<>>],
                  LAMBDA f : f # <<>>)

\* CodeOptimizer.extractPatterns: every pattern becomes a shared declaration
\* and its occurrences in the body references to it
extractPatterns(code, patterns) ==
    LET ordered == InOrder(code.body, patterns)
        base == Len(code.declarations)
        nameOf == [f \in Range(ordered) |->
                      SharedNames[base + (CHOOSE k \in 1..Len(ordered) : ordered[k] = f)]]
    IN  [code EXCEPT
            !.declarations = @ \o [k \in 1..Len(ordered) |->
                                      [name |-> SharedNames[base + k], fragment |-> ordered[k]]],
            !.body = [k \in 1..Len(@) |-> IF @[k] \in patterns THEN <<nameOf[@[k]]>> ELSE @[k]]]

\* CodeOptimizer.deduplicate
deduplicate(code) == extractPatterns(code, findRepeatingPatterns(code))

\* the declarations of ds without repetitions, in the order of first occurrence
Distinct(ds) ==
    SelectSeq([k \in 1..Len(ds) |-> IF \E j \in 1..(k - 1) : ds[j] = ds[k] THEN "" ELSE ds[k]],
              LAMBDA d : d # "")

\* the declarations of all the rules of styles with the selector
DeclarationsOf(styles, selector) ==
    JoinAll([k \in 1..Len(styles) |->
                IF styles[k].selector = selector THEN styles[k].declarations ELSE <<>>])

\* CodeOptimizer.mergeStyles: the first rule of a selector takes the
\* declarations of all the rules of that selector, identical declarations
\* once; the later rules of the selector are left without declarations
mergeStyles(styles) ==
    [k \in 1..Len(styles) |->
        IF \E j \in 1..(k - 1) : styles[j].selector = styles[k].selector
        THEN [styles[k] EXCEPT !.declarations = <<>>]
        ELSE [styles[k] EXCEPT !.declarations = Distinct(DeclarationsOf(styles, styles[k].selector))]]

\* CodeOptimizer.removeUnusedStyles: the rules without declarations go
removeUnusedStyles(styles) == SelectSeq(styles, LAMBDA rule : rule.declarations # <<>>)

\* optimizeStyles with the two steps in the other order
optimizeStylesSwapped(styles) == mergeStyles(removeUnusedStyles(styles))

\* CodeOptimizer.optimizeStyles
optimizeStyles(styles) == removeUnusedStyles(mergeStyles(styles))

\* the three passes on an artifact
optimize(artifact) ==
    [code |-> deduplicate(optimizeImports(artifact.code)), styles |-> optimizeStyles(artifact.styles)]

\* the code, styles or artifact that is about to be optimized
OptimizerInput(kind, input) ==
    [op |-> "input", name |-> kind, ctx |-> 0, input |-> input, result |-> NoResult]

\* the call pass(last.input) on an input of the kind, with its result
Optimize(pass, kind, result) ==
    /\ last.op = "input"
    /\ last.name = kind
    /\ last' = [op |-> pass, name |-> kind, ctx |-> 0, input |-> last.input, result |-> result]
    /\ UNCHANGED <<engineVars, generatorVars, importVars, storeVars, schedulerVars>>

InitOptimizer ==
    /\ templates = EmptyMap
    /\ helpers = EmptyMap
    /\ genTemplates = EmptyMap
    /\ genOrder = <<>>
    /\ activeTemplate = Null
    /\ firstRegistered = Null
    /\ importMap = EmptyMap
    /\ InitStore
    /\ InitSchedulerIn(TRUE)
    /\ \/ \E code \in CodePool : last = OptimizerInput("code", code)
       \/ \E styles \in StylesPool : last = OptimizerInput("styles", styles)
       \/ \E code \in CodePool, styles \in ArtifactStylesPool :
             last = OptimizerInput("artifact", [code |-> code, styles |-> styles])

NextOptimizer ==
    \/ Optimize("optimizeImports", "code", optimizeImports(last.input))
    \/ Optimize("deduplicate", "code", deduplicate(last.input))
    \/ Optimize("optimizeStyles", "styles", optimizeStyles(last.input))
    \/ Optimize("optimize", "artifact", optimize(last.input))

SpecOptimizer == InitOptimizer /\ [][NextOptimizer]_vars

\* ------------------------------------------------------------------------
\* Properties of CodeOptimizer (SpecOptimizer)
\* ------------------------------------------------------------------------

\* C15: every Optimizer pass (optimizeImports, deduplicate, optimizeStyles)
\* and their composition is idempotent: a pass applied to its own result
\* returns that result.
C15_Idempotent ==
    /\ last.op = "optimizeImports" => optimizeImports(last.result) = last.result
    /\ last.op = "deduplicate" => deduplicate(last.result) = last.result
    /\ last.op = "optimizeStyles" => optimizeStyles(last.result) = last.result
    /\ last.op = "optimize" => optimize(last.result) = last.result

\* an artifact that each of the three passes changed
C15_Witness ==
    /\ last.op = "optimize"
    /\ last.result.code.imports # last.input.code.imports
    /\ last.result.code.body # last.input.code.body
    /\ last.result.code.declarations # <<>>
    /\ last.result.styles # last.input.styles
    /\ last.result.styles # <<>>

\* the names the body of the code references
Referenced(code) == UNION {Range(code.body[k]) : k \in 1..Len(code.body)}

\* C16: optimizeImports removes exactly the imported bindings that the body
\* never references: a statement keeps its referenced bindings, in order,
\* and is removed entirely only when it has named bindings and none of them
\* is referenced.  Importing {A, B} and referencing only A leaves {A}.
C16_UnusedImportsRemoved ==
    last.op = "optimizeImports" =>
        LET code == last.input
            kept == [k \in 1..Len(code.imports) |->
                        SelectSeq(code.imports[k].names, LAMBDA n : n \in Referenced(code))]
            stays == {k \in 1..Len(code.imports) : kept[k] # <<>> \/ code.imports[k].names = <<>>}
            remaining == SelectSeq([k \in 1..Len(code.imports) |->
                                       IF k \in stays
                                       THEN [names |-> kept[k], module |-> code.imports[k].module]
                                       ELSE [names |-> <<>>, module |-> ""]],
                                   LAMBDA st : st.module # "")
        IN  /\ last.result.imports = remaining
            /\ last.result.body = code.body

\* {A, B} imported from m and only A referenced: {A} is imported from m
C16_Witness ==
    /\ last.op = "optimizeImports"
    /\ last.input.imports = << [names |-> <<"A", "B">>, module |-> "m"] >>
    /\ last.input.body = << <<"A">> >>
    /\ last.result.imports = << [names |-> <<"A">>, module |-> "m"] >>

\* ------------------------------------------------------------------------
\* UnifiedRenderer
\* ------------------------------------------------------------------------

\* the largest number of children of a schema node that is rendered
MaxChildren == 2

RenderModes == {"edit", "preview", "publish"}

\* schema nodes without children: the tag name, the content and the children
\* are each absent or present, the content and the child list possibly empty
LeafPool ==
    { [id |-> "leaf", tagName |-> tagName, content |-> content, children |-> children] :
        tagName \in {Undef, Str(<<"p">>)},
        content \in {Undef, Str(<<>>), Str(<<"t">>)},
        children \in {Undef, Arr(0, <<>>)} }

\* the leaves that the nodes with children are built of
ChildPool ==
    {c \in LeafPool : c.children = Undef /\ c.content # Str(<<>>)}

\* schema nodes with children, with and without literal content
ParentPool ==
    { [id |-> "parent", tagName |-> Undef, content |-> content, children |-> Arr(0, cs)] :
        content \in {Undef, Str(<<"c">>)},
        cs \in SeqsUpTo(ChildPool, MaxChildren) \ {<<>>} }

\* schema nodes over a node that itself carries children and content
RootPool ==
    { [id |-> "root", tagName |-> Str(<<"s", "e", "c", "t", "i", "o", "n">>), content |-> content, children |-> Arr(0, <<p>>)] :
        content \in {Undef, Str(<<"r">>)},
        p \in {q \in ParentPool : q.content # Undef /\ Len(q.children.v) = 1} }

ComponentPool == LeafPool \cup ParentPool \cup RootPool

\* component.children && component.children.length > 0
HasChildren(component) ==
    Truthy(component.children) /\ Len(component.children.v) > 0

\* TextContent that sets the content whether or not there are children
TextContentAlways(component) ==
    IF Truthy(component.content) THEN component.content ELSE Str(<<>>)

\* the textContent of the element of a component: component.content when
\* there are no children and the content is truthy, else the '' of a new element
TextContent(component) ==
    IF HasChildren(component) THEN Str(<<>>)
    ELSE IF Truthy(component.content) THEN component.content
    ELSE Str(<<>>)

\* UnifiedRenderer.renderComponent: the element created for the component
RECURSIVE renderComponent(_, _)
renderComponent(component, mode) ==
    [ tagName |-> IF Truthy(component.tagName) THEN component.tagName.v ELSE <<"d", "i", "v">>,
      events |-> mode # "edit",
      componentId |-> IF mode = "edit" THEN component.id ELSE "",
      classList |-> IF mode = "edit" THEN {"editor-component"} ELSE {},
      children |-> IF HasChildren(component)
                   THEN [k \in 1..Len(component.children.v) |->
                            renderComponent(component.children.v[k], mode)]
                   ELSE <<>>,
      textContent |-> TextContent(component) ]

\* the component that is about to be rendered
RendererInput(component) ==
    [op |-> "input", name |-> "component", ctx |-> 0, input |-> component, result |-> NoResult]

\* renderer.renderComponent(last.input, mode)
RenderComponent(mode) ==
    /\ last.op = "input"
    /\ last.name = "component"
    /\ last' = [op |-> "renderComponent", name |-> mode, ctx |-> 0, input |-> last.input,
                result |-> renderComponent(last.input, mode)]
    /\ UNCHANGED <<engineVars, generatorVars, importVars, storeVars, schedulerVars>>

InitRenderer ==
    /\ templates = EmptyMap
    /\ helpers = EmptyMap
    /\ genTemplates = EmptyMap
    /\ genOrder = <<>>
    /\ activeTemplate = Null
    /\ firstRegistered = Null
    /\ importMap = EmptyMap
    /\ InitStore
    /\ InitSchedulerIn(TRUE)
    /\ \E component \in ComponentPool : last = RendererInput(component)

NextRenderer == \E mode \in RenderModes : RenderComponent(mode)

SpecRenderer == InitRenderer /\ [][NextRenderer]_vars

\* ------------------------------------------------------------------------
\* Properties of UnifiedRenderer (SpecRenderer)
\* ------------------------------------------------------------------------

\* the element renders the component with the children taking precedence, at
\* every depth: with children, the element holds the rendered children and no
\* text; without, it holds no child and the content, if any, as its text
RECURSIVE ChildrenWin(_, _)
ChildrenWin(component, element) ==
    IF component.children # Undef /\ component.children.v # <<>>
    THEN /\ element.textContent = Str(<<>>)
         /\ Len(element.children) = Len(component.children.v)
         /\ \A k \in 1..Len(element.children) :
               ChildrenWin(component.children.v[k], element.children[k])
    ELSE /\ element.children = <<>>
         /\ element.textContent = (IF component.content = Undef THEN Str(<<>>) ELSE component.content)

\* C19: when a schema node carries both children and literal content, the
\* children take precedence: its rendered fragment consists of the rendered
\* children and does not include the content; the content is emitted only
\* for a node that has no children.
C19_ChildrenTakePrecedence ==
    last.op = "renderComponent" => ChildrenWin(last.input, last.result)

\* a node with content r over a node with content c over a leaf with content
\* t: only the text of the leaf is rendered
C19_Witness ==
    /\ last.op = "renderComponent"
    /\ last.input.content = Str(<<"r">>)
    /\ last.input.children.v[1].content = Str(<<"c">>)
    /\ last.input.children.v[1].children.v[1].content = Str(<<"t">>)
    /\ last.result.textContent = Str(<<>>)
    /\ last.result.children[1].textContent = Str(<<>>)
    /\ last.result.children[1].children[1].textContent = Str(<<"t">>)

\* C20: TemplateEngine.render, whether it succeeds or fails, leaves the
\* template map, the helper map and the caller's context unchanged: the item
\* and index of a loop iteration are written to a derived copy, never to the
\* context the caller passed.
C20_RenderFrame ==
    [][last'.op = "render" =>
          /\ templates' = templates
          /\ helpers' = helpers
          /\ ContextPool[last'.ctx].id \notin last'.result.written]_vars

\* a render that ran a loop over two items and bound item and index for each
C20_Witness ==
    /\ Rendered("snippet")
    /\ last.ctx = 10
    /\ last.result.ok
    /\ last.result.text = <<"[", "1", "0", "]", "[", "2", "1", "]", "!", "1">>
    /\ last.result.written # {}

\* ------------------------------------------------------------------------
\* The stages of TemplateEngine.render, each applied on its own (SpecStages)
\* ------------------------------------------------------------------------

\* the contexts that the stages are applied with
StageContexts ==
    << Obj(0, (<<"x">> :> Str(<<"a", " ", "b">>)) @@ (<<"y">> :> IntV(1)) @@ (<<"n">> :> Str(<<"a", "b">>))
              @@ (<<"i", "t", "e", "m", "s">> :> Arr(2, <<IntV(1), IntV(2)>>))),
       Obj(0, (<<"x">> :> Str(<<"a", "=", "=", "b">>)) @@ (<<"y">> :> IntV(0))
              @@ (<<"i", "t", "e", "m", "s">> :> Arr(2, <<IntV(2), Str(<<"q">>), IntV(2)>>))),
       Obj(0, (<<"x">> :> Str(<<"a", "b">>)) @@ (<<"i", "t", "e", "m", "s">> :> Arr(2, <<>>))
              @@ (<<"u", "s", "e", "r">> :> Obj(4, (<<"n", "a", "m", "e">> :> Str(<<"b", "o">>))))),
       Obj(0, (<<"x">> :> IntV(12)) @@ (<<"y">> :> Bool(TRUE)) @@ (<<"i", "t", "e", "m", "s">> :> Str(<<"n", "o">>))),
       Obj(0, (<<"x">> :> Num(15, 1)) @@ (<<"y">> :> Null) @@ (<<"u", "s", "e", "r">> :> Null)),
       Obj(0, EmptyMap) >>

\* the tokens that stand for a value in a condition or in an argument list
TokenPool ==
    { <<"\"", "a", "b", "\"">>, <<"\"", "a", " ", "b", "\"">>, <<"\"", "a", "=", "=", "b", "\"">>, <<"1", "2">>, <<"1", ".", "5">>, <<"-", "3">>, <<"t", "r", "u", "e">>, <<"f", "a", "l", "s", "e">>, <<"n", "u", "l", "l">>,
      <<"u", "n", "d", "e", "f", "i", "n", "e", "d">>, <<"y">>, <<"u", "s", "e", "r", ".", "n", "a", "m", "e">> }

\* the texts the stages are applied to: a value token as a helper argument,
\* as a condition and as an operand of ==, conditional blocks, each-blocks
LiteralInputs ==
    {[stage |-> "helpers", kind |-> "argument", token |-> t,
      text |-> <<"{", "{", "c", "a", "p", "i", "t", "a", "l", "i", "z", "e", " ">> \o t \o <<"}", "}">>] : t \in TokenPool}
    \cup {[stage |-> "conditionals", kind |-> "truthiness", token |-> t,
           text |-> <<"{", "{", "#", "i", "f", " ">> \o t \o <<"}", "}", "T", "{", "{", "#", "e", "l", "s", "e", "}", "}", "F", "{", "{", "/", "i", "f", "}", "}">>] : t \in TokenPool}
    \cup {[stage |-> "conditionals", kind |-> "equality", token |-> t,
           text |-> <<"{", "{", "#", "i", "f", " ", "x", " ", "=", "=", " ">> \o t \o <<"}", "}", "T", "{", "{", "#", "e", "l", "s", "e", "}", "}", "F", "{", "{", "/", "i", "f", "}", "}">>] : t \in TokenPool}

BlockInputs ==
    {[stage |-> "conditionals", kind |-> "blocks", token |-> <<>>, text |-> t] :
        t \in { <<"a", "{", "{", "#", "i", "f", " ", "y", "}", "}", "T", "{", "{", "#", "e", "l", "s", "e", "}", "}", "F", "{", "{", "/", "i", "f", "}", "}", "b">>,
                <<"{", "{", "#", "i", "f", " ", "y", "}", "}", "T", "{", "{", "/", "i", "f", "}", "}", "!">>,
                <<"{", "{", "#", "i", "f", " ", "x", " ", "=", "=", " ", "\"", "a", "b", "\"", "}", "}", "{", "{", "n", "}", "}", "{", "{", "#", "e", "l", "s", "e", "}", "}", "{", "{", "c", "a", "p", "i", "t", "a", "l", "i", "z", "e", " ", "n", "}", "}", "{", "{", "/", "i", "f", "}", "}">>,
                <<"{", "{", "#", "i", "f", " ", "y", "}", "}", "1", "{", "{", "/", "i", "f", "}", "}", "-", "{", "{", "#", "i", "f", " ", "x", "}", "}", "2", "{", "{", "#", "e", "l", "s", "e", "}", "}", "3", "{", "{", "/", "i", "f", "}", "}">>,
                <<"{", "{", "#", "i", "f", " ", "y", "}", "}", "A", "{", "{", "#", "i", "f", " ", "x", " ", "=", "=", " ", "1", "2", "}", "}", "B", "{", "{", "/", "i", "f", "}", "}", "C", "{", "{", "/", "i", "f", "}", "}">>,
                <<"{", "{", "#", "i", "f", " ", "y", "}", "}", "A", "{", "{", "#", "e", "l", "s", "e", "}", "}", "{", "{", "#", "i", "f", " ", "x", " ", "=", "=", " ", "\"", "a", "b", "\"", "}", "}", "B", "{", "{", "#", "e", "l", "s", "e", "}", "}", "C", "{", "{", "/", "i", "f", "}", "}", "{", "{", "/", "i", "f", "}", "}">> }}

EachInputs ==
    { [stage |-> "loops", kind |-> "bindings", token |-> <<>>,
       text |-> <<"<", "{", "{", "#", "e", "a", "c", "h", " ", "i", "t", "e", "m", "s", "}", "}", "[", "{", "{", "i", "t", "e", "m", "}", "}", "{", "{", "i", "n", "d", "e", "x", "}", "}", "{", "{", "x", "}", "}", "]", "{", "{", "/", "e", "a", "c", "h", "}", "}", ">", "{", "{", "i", "t", "e", "m", "}", "}", "{", "{", "i", "n", "d", "e", "x", "}", "}">>],
      [stage |-> "loops", kind |-> "conditional", token |-> <<>>,
       text |-> <<"{", "{", "#", "e", "a", "c", "h", " ", "i", "t", "e", "m", "s", "}", "}", "{", "{", "#", "i", "f", " ", "i", "t", "e", "m", " ", "=", "=", " ", "2", "}", "}", "T", "{", "{", "#", "e", "l", "s", "e", "}", "}", "F", "{", "{", "/", "i", "f", "}", "}", "{", "{", "/", "e", "a", "c", "h", "}", "}">>] }

StageInputs == LiteralInputs \cup BlockInputs \cup EachInputs

\* the helper map of the engine the stages run on
StageHelpers == <<"c", "a", "p", "i", "t", "a", "l", "i", "z", "e">> :> "capitalize"

\* one stage of render applied to the text of the input
Stage(stage, op, result) ==
    /\ last.op = "input"
    /\ last.input.stage = stage
    /\ last' = [last EXCEPT !.op = op, !.result = result]
    /\ UNCHANGED <<engineVars, generatorVars, importVars, storeVars, schedulerVars>>

InitStages ==
    /\ templates = EmptyMap
    /\ helpers = StageHelpers
    /\ genTemplates = EmptyMap
    /\ genOrder = <<>>
    /\ activeTemplate = Null
    /\ firstRegistered = Null
    /\ importMap = EmptyMap
    /\ InitStore
    /\ InitSchedulerIn(TRUE)
    /\ \E input \in StageInputs, c \in 1..Len(StageContexts) :
          last = [op |-> "input", name |-> input.kind, ctx |-> c, input |-> input,
                  result |-> NoResult]

NextStages ==
    \/ Stage("conditionals", "processConditionals",
             processConditionals(Ok(last.input.text, <<>>), StageContexts[last.ctx]))
    \/ Stage("loops", "processLoops",
             processLoops(Ok(last.input.text, <<>>), StageContexts[last.ctx]))
    \/ Stage("helpers", "processHelpers",
             processHelpers(helpers, Ok(last.input.text, <<>>), StageContexts[last.ctx]))

SpecStages == InitStages /\ [][NextStages]_vars

\* ------------------------------------------------------------------------
\* Properties of the stages (SpecStages)
\* ------------------------------------------------------------------------

\* the stage op has run on an input of the kind
StageDone(op, kind) == last.op = op /\ last.name = kind

\* the value the token of the input stands for
TokenValue == resolveValue(last.input.token, StageContexts[last.ctx])

\* C21: a value token resolves to the same value as a helper argument and
\* as a conditional operand: the helper is called with exactly the value of
\* the token (for a double-quoted token, white space and == included, the
\* string between the quotes), a condition made of the token holds exactly
\* when that value is truthy, and x == token holds exactly when the value
\* of x loosely equals it.
C21_LiteralResolutionShared ==
    /\ StageDone("processHelpers", "argument") =>
          /\ last.result.ok
          /\ Len(last.result.calls) = 1
          /\ last.result.calls[1].args = <<TokenValue>>
    /\ StageDone("processConditionals", "truthiness") =>
          /\ last.result.ok
          /\ last.result.text = IF Truthy(TokenValue) THEN <<"T">> ELSE <<"F">>
    /\ StageDone("processConditionals", "equality") =>
          /\ last.result.ok
          /\ last.result.text =
                IF LooseEq(PathStep(StageContexts[last.ctx], <<"x">>), TokenValue)
                THEN <<"T">> ELSE <<"F">>

\* the position of the {{/if}} that closes the block whose branch text
\* starts at i, depth blocks being open inside it (0: none)
RECURSIVE BlockClose(_, _, _)
BlockClose(s, i, depth) ==
    IF i > Len(s) THEN 0
    ELSE IF StartsWithAt(s, i, LIT_ifOpen) THEN BlockClose(s, i + 5, depth + 1)
    ELSE IF StartsWithAt(s, i, LIT_ifClose)
         THEN IF depth = 0 THEN i ELSE BlockClose(s, i + 7, depth - 1)
    ELSE BlockClose(s, i + 1, depth)

\* the position of the {{#else}} of the block whose branch text starts at
\* i (0: the block has none)
RECURSIVE BlockElse(_, _, _)
BlockElse(s, i, depth) ==
    IF i > Len(s) THEN 0
    ELSE IF StartsWithAt(s, i, LIT_ifOpen) THEN BlockElse(s, i + 5, depth + 1)
    ELSE IF StartsWithAt(s, i, LIT_ifClose)
         THEN IF depth = 0 THEN 0 ELSE BlockElse(s, i + 7, depth - 1)
    ELSE IF depth = 0 /\ StartsWithAt(s, i, LIT_else) THEN i
    ELSE BlockElse(s, i + 1, depth)

\* the text of the well-formed blocks of s with every block, the nested
\* ones included, replaced by the branch its condition selects
RECURSIVE BlocksResolved(_, _)
BlocksResolved(s, context) ==
    LET j == FindLit(s, 1, LIT_ifOpen)
        b == FindLit(s, j, <<"}", "}">>) + 2
        c == BlockClose(s, b, 0)
        e == BlockElse(s, b, 0)
        holds == CondValue(Trim(SubSeq(s, j + 5, b - 3)), context).v
        branch == IF holds THEN SubSeq(s, b, (IF e # 0 THEN e ELSE c) - 1)
                  ELSE IF e # 0 THEN SubSeq(s, e + 9, c - 1)
                  ELSE <<>>
    IN  IF j = 0 THEN s
        ELSE SubSeq(s, 1, j - 1) \o BlocksResolved(branch, context)
             \o BlocksResolved(SubSeq(s, c + 7, Len(s)), context)

\* C22: the conditional stage replaces every well-formed block, a block
\* nested in a branch of another block included, by the raw content of the
\* branch its condition selects (nothing when the condition fails and there
\* is no #else), keeps the text outside the blocks, and leaves no #if,
\* #else or /if marker in its output.
C22_ConditionalStage ==
    StageDone("processConditionals", "blocks") =>
        /\ last.result.ok
        /\ last.result.text = BlocksResolved(last.input.text, StageContexts[last.ctx])
        /\ ~Includes(last.result.text, LIT_ifOpen)
        /\ ~Includes(last.result.text, LIT_else)
        /\ ~Includes(last.result.text, LIT_ifClose)

\* the elements of the items of the context of the stage
StageItems == PathStep(StageContexts[last.ctx], <<"i", "t", "e", "m", "s">>)

\* the text of {{x}} in the context of the stage
OuterX == VariableText(ResolvePath(<<"x">>, StageContexts[last.ctx])).text

\* the concatenation of the texts body[i] of the elements i of the items
RECURSIVE EachJoined(_, _)
EachJoined(body, n) ==
    IF n = 0 THEN <<>> ELSE EachJoined(body, n - 1) \o body[n]

\* C23: for an each-block over a sequence of n elements the loop stage
\* renders the body n times in the order of the sequence, iteration i with
\* index = i (from 0) and item = the i-th element, interpolating the body
\* and then processing its conditionals; another key of the context has in
\* the body the value it has outside, and the text outside the block is not
\* touched by the bindings.
C23_LoopStage ==
    /\ StageDone("processLoops", "bindings") /\ StageItems.t = "arr" =>
          /\ last.result.ok
          /\ last.result.text =
                <<"<">> \o EachJoined([i \in 1..Len(StageItems.v) |->
                                      <<"[">> \o ToStr(StageItems.v[i]) \o NatToStr(i - 1)
                                      \o OuterX \o <<"]">>],
                                  Len(StageItems.v))
                \o <<">", "{", "{", "i", "t", "e", "m", "}", "}", "{", "{", "i", "n", "d", "e", "x", "}", "}">>
    /\ StageDone("processLoops", "conditional") /\ StageItems.t = "arr" =>
          /\ last.result.ok
          /\ last.result.text =
                EachJoined([i \in 1..Len(StageItems.v) |->
                               IF LooseEq(StageItems.v[i], IntV(2)) THEN <<"T">> ELSE <<"F">>],
                           Len(StageItems.v))

\* the context of generateComponent as the keys of its parts decide it: the
\* name and the description from the options when given, else generated; a
\* key of the options; else the key of the analysis
MergedContext(component, options) ==
    Obj(6, [k \in DOMAIN analyzeComponent(component) \cup DOMAIN options.v
                  \cup {<<"c", "o", "m", "p", "o", "n", "e", "n", "t", "N", "a", "m", "e">>, <<"c", "o", "m", "p", "o", "n", "e", "n", "t", "D", "e", "s", "c", "r", "i", "p", "t", "i", "o", "n">>} |->
              IF k = <<"c", "o", "m", "p", "o", "n", "e", "n", "t", "N", "a", "m", "e">>
              THEN (IF Truthy(OptGet(options, <<"c", "o", "m", "p", "o", "n", "e", "n", "t", "N", "a", "m", "e">>))
                    THEN options.v[<<"c", "o", "m", "p", "o", "n", "e", "n", "t", "N", "a", "m", "e">>] ELSE generateComponentName(component))
              ELSE IF k = <<"c", "o", "m", "p", "o", "n", "e", "n", "t", "D", "e", "s", "c", "r", "i", "p", "t", "i", "o", "n">>
              THEN (IF Truthy(OptGet(options, <<"d", "e", "s", "c", "r", "i", "p", "t", "i", "o", "n">>))
                    THEN options.v[<<"d", "e", "s", "c", "r", "i", "p", "t", "i", "o", "n">>] ELSE Str(component.type \o <<" ", "c", "o", "m", "p", "o", "n", "e", "n", "t">>))
              ELSE IF k \in DOMAIN options.v THEN options.v[k]
              ELSE analyzeComponent(component)[k]])

\* the call failed with the error of the render r and returned no code
FailedWith(result, r) ==
    /\ ~result.ok
    /\ result.error = r.error
    /\ "code" \notin DOMAIN result

\* the outcome result is that of the renders mainCode, styleCode and
\* indexCode made in this order
RendersInOrder(result, mainCode, styleCode, indexCode) ==
    IF ~mainCode.ok THEN FailedWith(result, mainCode)
    ELSE IF ~styleCode.ok THEN FailedWith(result, styleCode)
    ELSE IF ~indexCode.ok THEN FailedWith(result, indexCode)
    ELSE /\ result.ok
         /\ result.code.main.content = mainCode.text
         /\ result.code.styles.content = styleCode.text
         /\ result.code.index.content = indexCode.text

\* C24: generateComponent renders component, styles and index in this order
\* with one context, the analysis merged with the options (a key of the
\* options wins over the same key of the analysis; componentName and
\* componentDescription are options.componentName and options.description
\* when given, else the generated name and "<type> component"); the first
\* render that fails makes the call fail with its error, and no GeneratedCode
\* is returned.
C24_GenerateComponentOrder ==
    last.op = "generateComponent" =>
        RendersInOrder(last.result,
                       render(templates, helpers, TemplateKey(last.result.templateName, "component"),
                              MergedContext(SchemaPool[last.ctx], ComponentOptionsPool[last.opt])),
                       render(templates, helpers, TemplateKey(last.result.templateName, "styles"),
                              MergedContext(SchemaPool[last.ctx], ComponentOptionsPool[last.opt])),
                       render(templates, helpers, TemplateKey(last.result.templateName, "index"),
                              MergedContext(SchemaPool[last.ctx], ComponentOptionsPool[last.opt])))

\* the option hasState replaced the flag of the analysis in the component
\* and the styles texts of generator A, and the description was generated
C24_Witness ==
    /\ ComponentGenerated
    /\ last.ctx = 2
    /\ last.opt = 4
    /\ last.result.code.main.content = <<"A", "2", " ", "C", "o", "m", "p", "o", "n", "e", "n", "t", "3", " ", "t", "r", "u", "e", " ", "p", " ", "c", "o", "m", "p", "o", "n", "e", "n", "t">>
    /\ last.result.code.styles.content = <<"A", "2", " ", "t", "r", "u", "e">>

\* the generator "" rendered the component text and its styles render failed
C24_WitnessFailure ==
    /\ last.op = "generateComponent"
    /\ ~last.result.ok
    /\ last.result.templateName = NameV("")
    /\ genOrder # <<>>
    /\ last.result.error.kind = "Template not found"
    /\ last.result.error.detail = ":styles"

\* C25: the block emitted by generateOptimizedImports declares every
\* distinct used registered component exactly once, however often its name
\* occurs in usedComponents, with the path and the weight of its latest
\* registration, and declares no component that is unregistered or unused.
C25_DeclaredOnce ==
    ImportsGenerated =>
        LET statements == Tail(EmittedLines)
            names == [k \in 1..Len(statements) |-> StatementName(statements[k])]
        IN  /\ \A n \in ImportNames \cup {UnregisteredName} :
                  CountOf(names, n)
                    = IF n \in DOMAIN importMap /\ CountOf(last.used, n) > 0 THEN 1 ELSE 0
            /\ \A k \in 1..Len(statements) :
                  /\ names[k] \in DOMAIN importMap
                  /\ IsEagerLine(statements[k]) <=> IsEagerWeight(importMap[names[k]].weight)
                  /\ Includes(statements[k], <<"'">> \o importMap[names[k]].path \o <<"'">>)

\* ------------------------------------------------------------------------
\* useEditorStore: the component tree, the selection and the history
\* (SpecStore, SpecHistory)
\* ------------------------------------------------------------------------

\* the largest number of snapshots in history.past at which the store is
\* still called
MaxPast == 3

\* the largest number of additions and deletions before a selection is
\* looked at
MaxEdits == 3

\* the most snapshots saveToHistory keeps in history.past
HistoryLimit == 50

\* the component ids that callers pass, and an id no component ever has
IdPool == {"a", "b"}

MissingId == "x"

\* the values nanoid() returns, in the order of the calls
FreshIds == <<"n1", "n2", "n3">>

\* an index argument that is left out
NoIndex == -1

\* the updates of updateComponent
UpdatesPool == { [props |-> ("k" :> 1)], [props |-> ("k" :> 2)] }

\* the component that addComponent is called with
NewComponent(id) == [id |-> id, parentId |-> NullId, children |-> <<>>, props |-> EmptyMap]

\* the draft the recipes of the actions work on
StoreState ==
    [components |-> componentsSlice, selection |-> selectionSlice, history |-> historySlice]

\* the EditorSnapshot of a state (its id and timestamp are not modelled)
Snapshot(state) ==
    [componentTree |-> state.components,
     selection |-> [selectedComponentId |-> state.selection.selectedComponentId,
                    multiSelection |-> state.selection.multiSelection]]

\* historyActions.saveToHistory
saveToHistory(state) ==
    LET pushed == Append(state.history.past, Snapshot(state))
        past == IF Len(pushed) > HistoryLimit THEN Tail(pushed) ELSE pushed
    IN  [state EXCEPT !.history = [past |-> past, future |-> <<>>,
                                   currentIndex |-> Len(past) - 1]]

\* ids.filter(x => x !== id)
Without(ids, id) == SelectSeq(ids, LAMBDA x : x # id)

\* ids.indexOf(id)
IndexOf(ids, id) ==
    IF \E k \in 1..Len(ids) : ids[k] = id
    THEN MinOf({k \in 1..Len(ids) : ids[k] = id}) - 1
    ELSE -1

\* ids.splice(index, 0, id), and ids.push(id) when the index is left out
InsertAt(ids, index, id) ==
    IF index = NoIndex \/ index >= Len(ids) THEN Append(ids, id)
    ELSE SubSeq(ids, 1, index) \o <<id>> \o SubSeq(ids, index + 1, Len(ids))

\* the children of n that are in byId
ChildrenIn(byId, n) ==
    IF n \in DOMAIN byId
    THEN {byId[n].children[k] : k \in 1..Len(byId[n].children)} \cap DOMAIN byId
    ELSE {}

RECURSIVE Closure(_, _)
Closure(byId, S) ==
    LET T == S \cup UNION {ChildrenIn(byId, n) : n \in S}
    IN  IF T = S THEN S ELSE Closure(byId, T)

\* the components reached from n over one or more children links
Below(byId, n) == Closure(byId, ChildrenIn(byId, n))

\* the recursion over the children of id does not end: a component below
\* id, or id, is below itself (a RangeError in the recursive helpers)
Unbounded(byId, id) == \E n \in {id} \cup Below(byId, id) : n \in Below(byId, n)

\* componentActions.addComponent
addComponent(state0, component, parentId) ==
    LET state == saveToHistory(state0)
        byId == MapSet(state.components.byId, component.id, component)
    IN  IF parentId = NullId
        THEN [state EXCEPT !.components.byId = byId,
                           !.components.rootIds = Append(@, component.id)]
        ELSE IF parentId \in DOMAIN byId
        THEN [state EXCEPT !.components.byId =
                  [byId EXCEPT ![parentId].children = Append(@, component.id),
                               ![component.id].parentId = parentId]]
        ELSE [state EXCEPT !.components.byId = byId]

\* componentActions.updateComponent (updates of props)
updateComponent(state0, id, updates) ==
    LET state == saveToHistory(state0)
    IN  IF id \notin DOMAIN state.components.byId THEN state
        ELSE [state EXCEPT !.components.byId[id].props = Spread(@, updates.props)]

\* moveComponent, first half: the component is taken out of the children
\* of its parent, or out of rootIds when it has no parentId
Detached(cs, id) ==
    IF cs.byId[id].parentId # NullId
    THEN IF cs.byId[id].parentId \in DOMAIN cs.byId
         THEN [cs EXCEPT !.byId[cs.byId[id].parentId].children = Without(@, id)]
         ELSE cs
    ELSE [cs EXCEPT !.rootIds = Without(@, id)]

\* moveComponent, second half: the component is put under newParentId, or
\* into rootIds when newParentId is not given
Attached(cs, id, newParentId, index) ==
    IF newParentId # NullId
    THEN IF newParentId \in DOMAIN cs.byId
         THEN [cs EXCEPT !.byId[newParentId].children = InsertAt(@, index, id),
                         !.byId[id].parentId = newParentId]
         ELSE cs
    ELSE [cs EXCEPT !.rootIds = InsertAt(@, index, id),
                    !.byId[id].parentId = NullId]

\* componentActions.moveComponent
moveComponent(state0, id, newParentId, index) ==
    LET state == saveToHistory(state0)
    IN  IF id \notin DOMAIN state.components.byId THEN state
        ELSE [state EXCEPT !.components = Attached(Detached(@, id), id, newParentId, index)]

\* deleteComponentRecursive(id) on the components cs
DeletedBelow(cs, id) ==
    [cs EXCEPT !.byId = [n \in DOMAIN cs.byId \ ({id} \cup Below(cs.byId, id)) |-> cs.byId[n]]]

\* componentActions.deleteComponent; the state is left as it was when the
\* recursion does not end
deleteComponent(state0, id) ==
    LET state == saveToHistory(state0)
    IN  IF id \notin DOMAIN state.components.byId THEN state
        ELSE IF Unbounded(state.components.byId, id) THEN state0
        ELSE [state EXCEPT
                 !.components = DeletedBelow(Detached(@, id), id),
                 !.selection.selectedComponentId = IF @ = id THEN NullId ELSE @,
                 !.selection.multiSelection = Without(@, id)]

\* the number of nanoid() calls of duplicateComponentRecursive on id
RECURSIVE CopyCount(_, _)
CopyCount(byId, id) ==
    LET kids == SelectSeq(byId[id].children, LAMBDA c : c \in DOMAIN byId)
        counts == [k \in 1..Len(kids) |-> CopyCount(byId, kids[k])]
        Sum[k \in 0..Len(kids)] == IF k = 0 THEN 0 ELSE Sum[k - 1] + counts[k]
    IN  1 + Sum[Len(kids)]

RECURSIVE DuplicateChildren(_, _, _, _)

\* duplicateComponentRecursive(comp): the copy, the map with the copies of
\* the components below comp added, and the nanoid values left
DuplicateRecursive(byId, comp, fresh) ==
    LET below == DuplicateChildren(byId, comp.children, Head(fresh), Tail(fresh))
    IN  [byId |-> below.byId, fresh |-> below.fresh,
         copy |-> [comp EXCEPT !.id = Head(fresh), !.children = below.ids]]

\* comp.children.map(childId => ...).filter(Boolean), the copies getting the
\* parentId newParent
DuplicateChildren(byId, children, newParent, fresh) ==
    IF children = <<>> THEN [byId |-> byId, ids |-> <<>>, fresh |-> fresh]
    ELSE IF Head(children) \notin DOMAIN byId
    THEN DuplicateChildren(byId, Tail(children), newParent, fresh)
    ELSE LET d == DuplicateRecursive(byId, byId[Head(children)], fresh)
             child == [d.copy EXCEPT !.parentId = newParent]
             rest == DuplicateChildren(MapSet(d.byId, child.id, child), Tail(children),
                                       newParent, d.fresh)
         IN  [byId |-> rest.byId, ids |-> <<child.id>> \o rest.ids, fresh |-> rest.fresh]

\* the end of duplicateComponent: the copy is stored, placed behind the
\* original and selected
Placed(state, id, byId, duplicated) ==
    LET parentId == state.components.byId[id].parentId
        stored == MapSet(byId, duplicated.id, duplicated)
    IN  [state EXCEPT
            !.components.byId =
                IF parentId # NullId /\ parentId \in DOMAIN stored
                THEN [stored EXCEPT ![parentId].children =
                          InsertAt(@, IndexOf(@, id) + 1, duplicated.id)]
                ELSE stored,
            !.components.rootIds =
                IF parentId # NullId THEN @
                ELSE InsertAt(@, IndexOf(@, id) + 1, duplicated.id),
            !.selection.selectedComponentId = duplicated.id]

\* componentActions.duplicateComponent, nanoid() returning the values of
\* fresh; the state is left as it was when the recursion does not end
duplicateComponent(state0, id, fresh) ==
    LET state == saveToHistory(state0)
        d == DuplicateRecursive(state.components.byId, state.components.byId[id], fresh)
    IN  IF id \notin DOMAIN state.components.byId THEN state
        ELSE IF Unbounded(state.components.byId, id) THEN state0
        ELSE Placed(state, id, d.byId, d.copy)

\* selectionActions.selectComponent
selectComponent(state, id) ==
    [state EXCEPT
        !.selection.selectedComponentId = id,
        !.selection.multiSelection =
            IF id # NullId /\ Len(@) > 0
            THEN (IF \E k \in 1..Len(@) : @[k] = id THEN @ ELSE Append(@, id))
            ELSE (IF id # NullId THEN <<id>> ELSE <<>>)]

\* multiSelectComponent: the multiSelection after the add or the removal
MultiSelected(multiSelection, id, add) ==
    IF add
    THEN (IF \E k \in 1..Len(multiSelection) : multiSelection[k] = id
          THEN multiSelection ELSE Append(multiSelection, id))
    ELSE Without(multiSelection, id)

\* selectionActions.multiSelectComponent
multiSelectComponent(state, id, add) ==
    [state EXCEPT
        !.selection.multiSelection = MultiSelected(@, id, add),
        !.selection.selectedComponentId =
            IF Len(MultiSelected(state.selection.multiSelection, id, add)) > 0
            THEN MultiSelected(state.selection.multiSelection, id, add)
                    [Len(MultiSelected(state.selection.multiSelection, id, add))]
            ELSE NullId]

\* selectionActions.clearSelection
clearSelection(state) ==
    [state EXCEPT !.selection.selectedComponentId = NullId,
                  !.selection.multiSelection = <<>>]

\* the state with the components and the selection of the snapshot
Restored(state, snapshot) ==
    [state EXCEPT !.components = snapshot.componentTree,
                  !.selection.selectedComponentId = snapshot.selection.selectedComponentId,
                  !.selection.multiSelection = snapshot.selection.multiSelection]

\* historyActions.undo
undo(state) ==
    IF state.history.currentIndex <= 0 \/ Len(state.history.past) = 0 THEN state
    ELSE [Restored(state, state.history.past[state.history.currentIndex])
             EXCEPT !.history.future = <<Snapshot(state)>> \o @,
                    !.history.currentIndex = @ - 1]

\* historyActions.redo
redo(state) ==
    IF Len(state.history.future) = 0 THEN state
    ELSE [Restored(state, state.history.future[1])
             EXCEPT !.history.past = Append(@, state.history.future[1]),
                    !.history.future = Tail(@),
                    !.history.currentIndex = @ + 1]

\* the ids that nanoid() has returned and the store still holds
HeldIds(state) ==
    DOMAIN state.components.byId
    \cup UNION {DOMAIN state.history.past[k].componentTree.byId : k \in 1..Len(state.history.past)}
    \cup UNION {DOMAIN state.history.future[k].componentTree.byId : k \in 1..Len(state.history.future)}

\* the values nanoid() returns next
Fresh(state) == SelectSeq(FreshIds, LAMBDA n : n \notin HeldIds(state))

\* one call of an action of the store: set(recipe)
StoreCall(op, id, state, inHistory) ==
    /\ componentsSlice' = state.components
    /\ selectionSlice' = state.selection
    /\ historySlice' = state.history
    /\ last' = [op |-> op, name |-> id, ctx |-> 0, result |-> NoResult,
                before |-> [components |-> componentsSlice, selection |-> selectionSlice],
                mutation |-> inHistory]
    /\ UNCHANGED <<engineVars, generatorVars, importVars, schedulerVars>>

\* the actions of the store that record history before they change the
\* component tree; cap bounds the length of history.past they are called at
AddComponent(cap) ==
    /\ Len(historySlice.past) < cap
    /\ \E id \in IdPool : \E parentId \in (IdPool \cup {NullId, MissingId}) \ {id} :
          StoreCall("addComponent", id, addComponent(StoreState, NewComponent(id), parentId), TRUE)

UpdateComponent(cap) ==
    /\ Len(historySlice.past) < cap
    /\ \E id \in IdPool \cup {MissingId}, updates \in UpdatesPool :
          StoreCall("updateComponent", id, updateComponent(StoreState, id, updates), TRUE)

MoveComponent(cap) ==
    /\ Len(historySlice.past) < cap
    /\ \E id \in IdPool \cup {MissingId}, newParentId \in IdPool \cup {NullId, MissingId},
          index \in {NoIndex, 0} :
          StoreCall("moveComponent", id, moveComponent(StoreState, id, newParentId, index), TRUE)

DeleteComponent(cap) ==
    /\ Len(historySlice.past) < cap
    /\ \E id \in DOMAIN componentsSlice.byId \cup {MissingId} :
          StoreCall("deleteComponent", id, deleteComponent(StoreState, id), TRUE)

DuplicateComponent(cap) ==
    /\ Len(historySlice.past) < cap
    /\ \E id \in DOMAIN componentsSlice.byId :
          /\ IF Unbounded(componentsSlice.byId, id) THEN TRUE
             ELSE CopyCount(componentsSlice.byId, id) <= Len(Fresh(StoreState))
          /\ StoreCall("duplicateComponent", id,
                       duplicateComponent(StoreState, id, Fresh(StoreState)), TRUE)

\* the actions of the selection, on the ids of the components of the store
SelectComponent ==
    \E id \in DOMAIN componentsSlice.byId \cup {NullId} :
        StoreCall("selectComponent", id, selectComponent(StoreState, id), FALSE)

MultiSelectComponent ==
    \E id \in DOMAIN componentsSlice.byId, add \in BOOLEAN :
        StoreCall("multiSelectComponent", id, multiSelectComponent(StoreState, id, add), FALSE)

ClearSelection == StoreCall("clearSelection", NullId, clearSelection(StoreState), FALSE)

SaveToHistory(cap) ==
    /\ Len(historySlice.past) < cap
    /\ StoreCall("saveToHistory", NullId, saveToHistory(StoreState), FALSE)

Undo == StoreCall("undo", NullId, undo(StoreState), FALSE)

Redo(cap) ==
    /\ Len(historySlice.past) < cap
    /\ StoreCall("redo", NullId, redo(StoreState), FALSE)

InitEditor == InitEngine

NextStore ==
    \/ AddComponent(MaxPast)
    \/ UpdateComponent(MaxPast)
    \/ MoveComponent(MaxPast)
    \/ DeleteComponent(MaxPast)
    \/ DuplicateComponent(MaxPast)
    \/ Undo
    \/ Redo(MaxPast)

SpecStore == InitEditor /\ [][NextStore]_vars

NextSelection ==
    \/ AddComponent(MaxEdits)
    \/ DeleteComponent(MaxEdits)
    \/ SelectComponent
    \/ MultiSelectComponent
    \/ ClearSelection

SpecSelection == InitEditor /\ [][NextSelection]_vars

NextHistory ==
    \/ SaveToHistory(HistoryLimit + 1)
    \/ Undo
    \/ Redo(HistoryLimit + 1)

SpecHistory == InitEditor /\ [][NextHistory]_vars

\* ------------------------------------------------------------------------
\* Properties of useEditorStore (SpecStore, SpecSelection, SpecHistory)
\* ------------------------------------------------------------------------

\* the actions that record history before they change the component tree
MutationOps ==
    {"addComponent", "updateComponent", "moveComponent", "deleteComponent",
     "duplicateComponent"}

\* C26: an undo that follows a mutation of the component tree restores the
\* components and the selection to what they were immediately before that
\* mutation; so after one mutation from the initial state, undo gives the
\* initial state back.
C26_UndoRestoresBeforeMutation ==
    [][(last.op \in MutationOps /\ last'.op = "undo") =>
          /\ componentsSlice' = last.before.components
          /\ selectionSlice' = last.before.selection]_vars

\* C27: history.past never holds more than 50 snapshots.
C27_HistoryBounded == Len(historySlice.past) <= HistoryLimit

\* the component n is listed in rootIds and has no parent, or is listed once
\* in the children of its parent and nowhere else
Owned(cs, n) ==
    IF cs.byId[n].parentId = NullId
    THEN /\ CountOf(cs.rootIds, n) = 1
         /\ \A m \in DOMAIN cs.byId : CountOf(cs.byId[m].children, n) = 0
    ELSE /\ CountOf(cs.rootIds, n) = 0
         /\ cs.byId[n].parentId \in DOMAIN cs.byId
         /\ \A m \in DOMAIN cs.byId :
               CountOf(cs.byId[m].children, n) = IF m = cs.byId[n].parentId THEN 1 ELSE 0

\* C28: the components form a forest: every component of byId is a root
\* without parentId or is once among the children of exactly the existing
\* component its parentId names, and no component is its own ancestor.
C28_Forest ==
    \A n \in DOMAIN componentsSlice.byId :
        /\ Owned(componentsSlice, n)
        /\ n \notin Below(componentsSlice.byId, n)

\* C29: the selected component and every component of the multi-selection
\* are components of byId.
C29_SelectionValid ==
    /\ selectionSlice.selectedComponentId \in DOMAIN componentsSlice.byId \cup {NullId}
    /\ \A k \in 1..Len(selectionSlice.multiSelection) :
          selectionSlice.multiSelection[k] \in DOMAIN componentsSlice.byId

\* ------------------------------------------------------------------------
\* RenderTaskScheduler (SpecScheduler, SpecSchedulerFair)
\* ------------------------------------------------------------------------

\* the number of tasks that are added; task k is the k-th task added
MaxTasks == 3

\* the number of callback handles of the browser that are in use at a time
MaxCallbacks == 3

TaskPool == 1..MaxTasks

\* the handle the browser returns for the next callback: one that is not
\* pending and is not the callback that is running
NextHandle(running) ==
    MinOf({h \in 1..(MaxCallbacks + 1) : h \notin window.callbacks \cup {running}})

\* RenderTaskScheduler.scheduleNextTask on the queue queue, called outside
\* a callback (running = NoCallback) or inside the callback running; the
\* values of isRunning, idleCallbackId and the pending callbacks after it
scheduleNextTask(queue, running) ==
    IF Len(queue) = 0
    THEN [isRunning |-> FALSE, idleCallbackId |-> idleCallbackId,
          callbacks |-> window.callbacks \ {running}]
    ELSE [isRunning |-> TRUE,
          idleCallbackId |-> IF window.requestIdleCallback THEN NextHandle(running)
                             ELSE idleCallbackId,
          callbacks |-> (window.callbacks \ {running}) \cup {NextHandle(running)}]

\* the scheduler fields and the browser after a call that ends in the
\* record s of scheduleNextTask or in nothing of it
Scheduled(s) ==
    /\ isRunning' = s.isRunning
    /\ idleCallbackId' = s.idleCallbackId
    /\ window' = [window EXCEPT !.callbacks = s.callbacks]

\* RenderTaskScheduler.addTask(task)
AddTask(task) ==
    /\ task = Len(taskLog.added) + 1
    /\ isRunning \/ Cardinality(window.callbacks) < MaxCallbacks
    /\ tasks' = Append(tasks, task)
    /\ IF ~isRunning
       THEN Scheduled(scheduleNextTask(Append(tasks, task), NoCallback))
       ELSE UNCHANGED <<isRunning, idleCallbackId, window>>
    /\ taskLog' = [taskLog EXCEPT !.added = Append(@, task)]
    /\ last' = [op |-> "addTask", name |-> "", ctx |-> task, result |-> NoResult]
    /\ UNCHANGED <<engineVars, generatorVars, importVars, storeVars>>

\* the numbers of tasks one callback can execute: the loop runs while the
\* time used is below taskTimeRemaining, which is maxTaskTime without a
\* deadline and min(deadline.timeRemaining(), maxTaskTime) with one, and
\* timeRemaining() is 0 when the callback is delivered by its timeout
Executable ==
    {n \in 0..Len(tasks) : n > 0 \/ Len(tasks) = 0 \/ window.requestIdleCallback}

\* RenderTaskScheduler.runTasks, delivered as the callback handle, n tasks
\* being executed before the time is used up
RunTasks(handle, n) ==
    /\ handle \in window.callbacks
    /\ n \in Executable
    /\ tasks' = SubSeq(tasks, n + 1, Len(tasks))
    /\ taskLog' = [taskLog EXCEPT !.executed = @ \o SubSeq(tasks, 1, n)]
    /\ Scheduled(scheduleNextTask(SubSeq(tasks, n + 1, Len(tasks)), handle))
    /\ last' = [op |-> "runTasks", name |-> "", ctx |-> handle, result |-> NoResult]
    /\ UNCHANGED <<engineVars, generatorVars, importVars, storeVars>>

\* RenderTaskScheduler.cancelAllTasks
CancelAllTasks ==
    /\ tasks' = <<>>
    /\ isRunning' = FALSE
    /\ IF idleCallbackId # NoCallback /\ window.requestIdleCallback
       THEN /\ window' = [window EXCEPT !.callbacks = @ \ {idleCallbackId}]
            /\ idleCallbackId' = NoCallback
       ELSE UNCHANGED <<window, idleCallbackId>>
    /\ taskLog' = [taskLog EXCEPT !.cancelled = @ \cup {tasks[k] : k \in 1..Len(tasks)}]
    /\ last' = [op |-> "cancelAllTasks", name |-> "", ctx |-> 0, result |-> NoResult]
    /\ UNCHANGED <<engineVars, generatorVars, importVars, storeVars>>

InitScheduler ==
    /\ templates = EmptyMap
    /\ helpers = EmptyMap
    /\ genTemplates = EmptyMap
    /\ genOrder = <<>>
    /\ activeTemplate = Null
    /\ firstRegistered = Null
    /\ importMap = EmptyMap
    /\ InitStore
    /\ \E idle \in BOOLEAN : InitSchedulerIn(idle)
    /\ last = [op |-> "init", name |-> "", ctx |-> 0, result |-> NoResult]

NextScheduler ==
    \/ \E task \in TaskPool : AddTask(task)
    \/ \E handle \in 1..(MaxCallbacks + 1), n \in 0..MaxTasks : RunTasks(handle, n)
    \/ CancelAllTasks

SpecScheduler == InitScheduler /\ [][NextScheduler]_vars

\* every callback the browser holds is delivered in the end
SpecSchedulerFair ==
    /\ SpecScheduler
    /\ \A handle \in 1..(MaxCallbacks + 1) :
          WF_vars(\E n \in 0..MaxTasks : RunTasks(handle, n))

\* ------------------------------------------------------------------------
\* Properties of RenderTaskScheduler (SpecSchedulerFair)
\* ------------------------------------------------------------------------

\* the tasks executed are tasks added, each once, in the order of addTask
ExecutedInOrder ==
    /\ \A i, j \in 1..Len(taskLog.executed) :
          i < j => taskLog.executed[i] < taskLog.executed[j]
    /\ \A i \in 1..Len(taskLog.executed) :
          taskLog.executed[i] \in 1..Len(taskLog.added)

\* no task that was in the queue at a cancelAllTasks has been executed
CancelledNotExecuted ==
    \A i \in 1..Len(taskLog.executed) : taskLog.executed[i] \notin taskLog.cancelled

\* with an empty queue and no callback pending the scheduler is not running
IdleWhenDone == (Len(tasks) = 0 /\ window.callbacks = {}) => ~isRunning

\* the task has been executed
WasExecuted(task) == \E i \in 1..Len(taskLog.executed) : taskLog.executed[i] = task

\* C30: every task is executed at most once and in the order of addTask, no
\* task queued at a cancelAllTasks is executed afterwards, isRunning is
\* false whenever the queue is empty and no callback is pending, and, the
\* callbacks being delivered, every task added is in the end executed or
\* cancelled.
C30_SchedulerRunsEveryTask ==
    /\ [](ExecutedInOrder /\ CancelledNotExecuted /\ IdleWhenDone)
    /\ \A task \in TaskPool :
          (task \in 1..Len(taskLog.added)) ~> (WasExecuted(task) \/ task \in taskLog.cancelled)

====
